---------------------------- MODULE Spec2Model ----------------------------
(***************************************************************************)
(* Model of the XTTS voice-lab service: the audio cache                    *)
(* (xtts_service/cache.py on top of xtts_service/db.py), the segmenter     *)
(* (xtts_service/segmentation.py), the request handlers                    *)
(* (xtts_service/app.py), the audio editing (xtts_service/audio_edit.py,   *)
(* audio_utils.py, radio.py) and the transcription service                 *)
(* (whisper-fast/service.py).                                              *)
(*                                                                         *)
(* Strings are sequences of one-character strings, so that joining,        *)
(* stripping and splitting are computed character by character.  Bytes     *)
(* are sequences of small integers.  Time is a logical clock.              *)
(*                                                                         *)
(* Nine specifications share the variables:                                *)
(*   SpecKey   make_key applied to two bounded key-field tuples;           *)
(*   Spec      the cache driven by one caller, one whole call per step;    *)
(*   SpecConc  the cache driven by several callers, one file-system or     *)
(*             database step at a time;                                    *)
(*   SpecSeg   segment_text applied to bounded texts;                      *)
(*   SpecTts   the /tts and /prefetch handlers of xtts_service/app.py on   *)
(*             top of the cache, one whole request per step;               *)
(*   SpecAsr   the /transcribe handler of whisper-fast/service.py;         *)
(*   SpecStitch  stitch_wavs applied to bounded chunks and pauses;         *)
(*   SpecSpeed   adjust_speed applied to bounded audio and speeds;         *)
(*   SpecRadio   apply_radio_profile applied to bounded full-scale audio.  *)
(***************************************************************************)
EXTENDS Integers, Sequences, FiniteSets, TLC

VARIABLES
    keyIn,      \* SpecKey: the two key-field tuples handed to make_key
    keyOut,     \* SpecKey: the two digests, or NoKeys before the calls
    db,         \* tts_cache table: a function from the keys present to their rows
    fs,         \* blob files under cache_dir: a function from the paths present to their bytes
    dirs,       \* the shard directories present under cache_dir
    now,        \* logical clock, one tick per completed call
    last,       \* what the last completed call was given (its generator if invoked) and what it returned
    seen,       \* history: the get_or_generate calls that returned since the cache was last empty
    tampered,   \* history: a blob or a row was removed from outside the cache
    pc,         \* SpecConc: position of each caller inside its call
    loc,        \* SpecConc: local variables of each caller
    seg,        \* SpecSeg: the text handed to segment_text and what it returned
    http,       \* SpecTts: the last HTTP request served and its response
    asr,        \* SpecAsr: the transcription handler's request in progress and its model
    wav         \* SpecStitch, SpecSpeed, SpecRadio: the audio handed to one call and what it returned
vars == <<keyIn, keyOut, db, fs, dirs, now, last, seen, tampered, pc, loc, seg, http, asr, wav>>

---------------------------------------------------------------------------
(* Values                                                                  *)

\* Python None for Optional[str] arguments; distinct from every character string.
None == <<"None">>

\* The empty string.
Empty == <<>>

\* str.strip() and str.split() with no argument treat these as whitespace.
Whitespace == {" ", "\t", "\n", "\r"}

\* TtsCache.model_version, the constructor's default for an empty model_version.
self_model_version == <<"u">>

---------------------------------------------------------------------------
(* Text helpers                                                            *)

RECURSIVE lstrip(_)
lstrip(s) ==
    IF s = <<>> THEN <<>>
    ELSE IF Head(s) \in Whitespace THEN lstrip(Tail(s)) ELSE s

RECURSIVE rstrip(_)
rstrip(s) ==
    IF s = <<>> THEN <<>>
    ELSE IF s[Len(s)] \in Whitespace THEN rstrip(SubSeq(s, 1, Len(s) - 1)) ELSE s

strip(s) == lstrip(rstrip(s))

\* str.split(): the maximal runs of non-whitespace characters, in order.
RECURSIVE split_from(_, _, _)
split_from(s, cur, acc) ==
    IF s = <<>> THEN (IF cur = <<>> THEN acc ELSE Append(acc, cur))
    ELSE IF Head(s) \in Whitespace
         THEN split_from(Tail(s), <<>>, IF cur = <<>> THEN acc ELSE Append(acc, cur))
         ELSE split_from(Tail(s), Append(cur, Head(s)), acc)

split(s) == split_from(s, <<>>, <<>>)

\* sep.join(parts)
RECURSIVE join(_, _)
join(sep, parts) ==
    IF parts = <<>> THEN <<>>
    ELSE IF Len(parts) = 1 THEN parts[1]
    ELSE parts[1] \o sep \o join(sep, Tail(parts))

\* normalize_text that trims but leaves internal whitespace runs alone.
normalize_text_trim_only(text) == strip(text)

normalize_text(text) == join(<<" ">>, split(strip(text)))

\* x or y, for x a string or None: None and "" are falsy.
or_else(x, y) == IF x = None \/ x = Empty THEN y ELSE x

Digit(d) == <<"0", "1", "2", "3", "4", "5", "6", "7", "8", "9">>[d + 1]

RECURSIVE int_chars(_)
int_chars(n) == IF n < 10 THEN <<Digit(n)>> ELSE Append(int_chars(n \div 10), Digit(n % 10))

\* f"{speed:.3f}".  A speed is held as an integer count of ten-thousandths
\* (10004 is 1.0004); the inputs avoid exact halves of a thousandth, whose
\* rounding depends on the binary representation of the float.
format_speed(speed) ==
    LET m == (speed + 5) \div 10
        f == m % 1000
    IN  int_chars(m \div 1000) \o <<".">> \o <<Digit(f \div 100), Digit((f \div 10) % 10), Digit(f % 10)>>

\* hashlib.sha256(...).hexdigest(), idealised as collision free: the digest
\* stands for its input and for nothing else.
hash_key(payload) == [sha256 |-> payload]

---------------------------------------------------------------------------
(* Cache key                                                               *)

key_payload(model_version, voice_id, role, radio_profile, speed, language, text_norm) ==
    join(<<"|">>,
         << or_else(model_version, self_model_version),
            or_else(voice_id, Empty),
            or_else(role, Empty),
            or_else(radio_profile, Empty),
            format_speed(speed),
            or_else(language, Empty),
            text_norm >>)

\* make_key with the language field left out of the payload.
make_key_no_language(model_version, voice_id, role, radio_profile, speed, language, text_norm) ==
    hash_key(key_payload(model_version, voice_id, role, radio_profile, speed, Empty, text_norm))

make_key(model_version, voice_id, role, radio_profile, speed, language, text_norm) ==
    hash_key(key_payload(model_version, voice_id, role, radio_profile, speed, language, text_norm))

\* make_key on a tuple of key fields whose text is passed as text_norm.
key_of(t) ==
    make_key(t.model_version, t.voice_id, t.role, t.radio_profile, t.speed, t.language, t.text)

\* The seven key fields as the data model names them: the effective model
\* version, absent and empty strings alike, the speed at three decimals.
canon(t) ==
    [ model_version |-> or_else(t.model_version, self_model_version),
      voice_id      |-> or_else(t.voice_id, Empty),
      role          |-> or_else(t.role, Empty),
      radio_profile |-> or_else(t.radio_profile, Empty),
      speed         |-> (t.speed + 5) \div 10,
      language      |-> or_else(t.language, Empty),
      text          |-> t.text ]

---------------------------------------------------------------------------
(* SpecKey: make_key on two bounded tuples                                 *)

KeyModelVersions == { Empty, <<"v">> }
KeyVoices        == { <<"a">>, <<"a", "|">> }
KeyRoles         == { None, Empty, <<"b">>, <<"|", "b">> }
KeyProfiles      == { None, <<"r">> }
KeySpeeds        == { 10000, 10004, 10010 }
KeyLanguages     == { <<"e">>, <<"f">> }
KeyTexts         == { <<"x">>, <<"x", " ", "y">> }

KeyTuples ==
    [ model_version : KeyModelVersions, voice_id : KeyVoices, role : KeyRoles,
      radio_profile : KeyProfiles, speed : KeySpeeds, language : KeyLanguages,
      text : KeyTexts ]

NoKeys == <<>>

KeyFields == { "voice_id", "role", "radio_profile", "speed", "language", "text" }

\* The fields in which two tuples differ as given.
DiffFields(t1, t2) == { f \in DOMAIN t1 : t1[f] # t2[f] }

MakeKeys ==
    /\ keyOut = NoKeys
    /\ keyOut' = << key_of(keyIn[1]), key_of(keyIn[2]) >>
    /\ UNCHANGED <<wav, seg, http, asr, keyIn, db, fs, dirs, now, last, seen, tampered, pc, loc>>

---------------------------------------------------------------------------
(* Cache store: rows, blobs and the database statements                    *)

\* SQL NULL in the last_hit column; a set time t is <<t>>.
NULL == <<>>

\* TtsCache._sharded_path: cache_dir / voice_id / key[:2] / key[2:4] / key.wav
sharded_path(voice_id, key) == <<voice_id, key>>

\* path.parent: the shard directory of a blob, one per voice and key prefix.
parent(path) == <<path[1], path[2]>>

\* path.parent.mkdir(parents=True, exist_ok=True)
mkdir(ds, path) == ds \cup {parent(path)}

\* CacheDB.fetch: the row as a one-element set, or the empty set.
fetch(d, key) == IF key \in DOMAIN d THEN {d[key]} ELSE {}

\* upsert that keeps the hit counter of a row it replaces.
upsert_keep_hits(d, row) ==
    [k \in DOMAIN d \cup {row.key} |->
        IF k # row.key THEN d[k]
        ELSE IF k \in DOMAIN d THEN [row EXCEPT !.hit_count = d[k].hit_count]
        ELSE row]

\* CacheDB.upsert: INSERT OR REPLACE on the primary key.
upsert(d, row) == [k \in DOMAIN d \cup {row.key} |-> IF k = row.key THEN row ELSE d[k]]

\* record_hit without its WHERE clause: every row is counted as hit.
record_hit_every_row(d, key, last_hit) ==
    [k \in DOMAIN d |-> [d[k] EXCEPT !.hit_count = @ + 1, !.last_hit = <<last_hit>>]]

\* CacheDB.record_hit: UPDATE ... WHERE key = ?
record_hit(d, key, last_hit) ==
    [k \in DOMAIN d |->
        IF k = key
        THEN [d[k] EXCEPT !.hit_count = @ + 1, !.last_hit = <<last_hit>>]
        ELSE d[k]]

\* clear that leaves the table as it is.
db_clear_nothing(d) == d

\* CacheDB.clear: DELETE FROM tts_cache
db_clear(d) == [k \in {} |-> k]

\* CacheDB.stats: COUNT(*) and SUM(bytes)
RECURSIVE sum_bytes(_, _)
sum_bytes(d, ks) ==
    IF ks = {} THEN 0
    ELSE LET k == CHOOSE x \in ks : TRUE IN d[k].bytes + sum_bytes(d, ks \ {k})

stats(d) == [items |-> Cardinality(DOMAIN d), bytes |-> sum_bytes(d, DOMAIN d)]

\* write_bytes that keeps a file that is already there.
write_bytes_if_absent(f, path, data) ==
    [p \in DOMAIN f \cup {path} |-> IF p \in DOMAIN f THEN f[p] ELSE data]

\* Path.write_bytes on an existing parent directory.
write_bytes(f, path, data) == [p \in DOMAIN f \cup {path} |-> IF p = path THEN data ELSE f[p]]

\* shutil.rmtree(cache_dir, ignore_errors=True) followed by mkdir.
rmtree(f) == [p \in {} |-> p]

\* new_row that carries over a hit count of one.
new_row_counted(key, model_version, voice_id, role, radio_profile, speed, language, text_norm, path, data, created_at) ==
    [ key           |-> key,
      voice_id      |-> voice_id,
      role          |-> role,
      radio_profile |-> radio_profile,
      speed         |-> speed,
      language      |-> language,
      text_norm     |-> text_norm,
      path          |-> path,
      bytes         |-> Len(data),
      created_at    |-> created_at,
      last_hit      |-> NULL,
      hit_count     |-> 1,
      model_version |-> or_else(model_version, self_model_version) ]

\* The dict handed to upsert by get_or_generate and store_audio.
new_row(key, model_version, voice_id, role, radio_profile, speed, language, text_norm, path, data, created_at) ==
    [ key           |-> key,
      voice_id      |-> voice_id,
      role          |-> role,
      radio_profile |-> radio_profile,
      speed         |-> speed,
      language      |-> language,
      text_norm     |-> text_norm,
      path          |-> path,
      bytes         |-> Len(data),
      created_at    |-> created_at,
      last_hit      |-> NULL,
      hit_count     |-> 0,
      model_version |-> or_else(model_version, self_model_version) ]

\* get_cached that trusts the row without looking for the file.
get_cached_unchecked(d, f, key) ==
    { [key |-> key, path |-> r.path, bytes |-> r.bytes, record |-> r,
       audio |-> IF r.path \in DOMAIN f THEN f[r.path] ELSE <<>>] : r \in fetch(d, key) }

\* TtsCache.get_cached: the usable entry as a one-element set, or the empty set.
get_cached(d, f, key) ==
    { [key |-> key, path |-> r.path, bytes |-> r.bytes, record |-> r, audio |-> f[r.path]] :
        r \in { x \in fetch(d, key) : x.path \in DOMAIN f } }

---------------------------------------------------------------------------
(* Spec: one caller, one whole call per step                               *)

\* Number of calls a behaviour makes; also the range of the clock.
MaxOps == 3

\* The (voice_id, role) pairs callers use.  The last two are distinct pairs
\* whose payloads read the same once joined with "|".
CacheIdentities ==
    { << <<"a">>, <<"b">> >>, << <<"a">>, <<"|", "b">> >>, << <<"a", "|">>, <<"b">> >> }
CacheTexts == { <<"x", " ", "y">>, <<" ", "x", " ", " ", "y", " ">> }

\* The key fields callers pass; text is raw for get_or_generate and is
\* taken as text_norm by store_audio.
CacheTuples ==
    { [ model_version |-> Empty, voice_id |-> i[1], role |-> i[2],
        radio_profile |-> None, speed |-> 10000, language |-> <<"e">>,
        text |-> x ] : i \in CacheIdentities, x \in CacheTexts }

\* What a generator or a caller of store_audio can supply.
Audio == { <<1>>, <<2, 2>> }

\* A generator either returns bytes or raises.
Generators == {[raises |-> FALSE, data |-> a] : a \in Audio} \cup {[raises |-> TRUE, data |-> <<>>]}

NoTuple ==
    [ model_version |-> Empty, voice_id |-> Empty, role |-> None, radio_profile |-> None,
      speed |-> 0, language |-> Empty, text |-> Empty ]

NoCall ==
    [ op |-> "none", args |-> NoTuple, gen |-> [raises |-> FALSE, data |-> <<>>],
      return_audio |-> FALSE, raised |-> FALSE, from_cache |-> FALSE,
      has_audio |-> FALSE, audio |-> <<>>, gen_calls |-> 0,
      key |-> hash_key(Empty), path |-> sharded_path(Empty, hash_key(Empty)),
      bytes |-> 0, hit_count |-> 0, items |-> 0, error |-> "none" ]

\* The key get_or_generate computes for raw key fields.
lookup_key(t) ==
    make_key(t.model_version, t.voice_id, t.role, t.radio_profile, t.speed, t.language,
             normalize_text(t.text))

\* The seven key fields of a get_or_generate call.
canon_call(t) == canon([t EXCEPT !.text = normalize_text(t.text)])

NoHistory == [pure |-> TRUE, calls |-> {}]

\* TtsCache.get_or_generate(..., text, generator, return_audio)
get_or_generate(t, gen, return_audio) ==
    LET text_norm == normalize_text(t.text)
        key       == make_key(t.model_version, t.voice_id, t.role, t.radio_profile,
                              t.speed, t.language, text_norm)
        cached    == get_cached(db, fs, key)
        path      == sharded_path(t.voice_id, key)
        call      == [NoCall EXCEPT !.op = "get_or_generate", !.args = t,
                                    !.return_audio = return_audio, !.key = key]
    IN  /\ now < MaxOps
        /\ now' = now + 1
        /\ IF cached # {}
           THEN LET c == CHOOSE x \in cached : TRUE IN
                /\ db' = record_hit(db, key, now)
                /\ UNCHANGED <<fs, dirs>>
                /\ last' = [call EXCEPT !.from_cache = TRUE,
                                        !.has_audio = return_audio,
                                        !.audio = IF return_audio THEN c.audio ELSE <<>>,
                                        !.path = c.path, !.bytes = c.bytes,
                                        !.hit_count = c.record.hit_count + 1]
                /\ seen' = [seen EXCEPT !.calls = @ \cup {[t |-> t, key |-> key, audio |-> c.audio]}]
           ELSE IF gen.raises
           THEN /\ UNCHANGED <<db, fs, dirs, seen>>
                /\ last' = [call EXCEPT !.gen = gen, !.raised = TRUE, !.error = "generator",
                                        !.gen_calls = 1]
           ELSE /\ dirs' = mkdir(dirs, path)
                /\ fs' = write_bytes(fs, path, gen.data)
                /\ db' = upsert(db, new_row(key, t.model_version, t.voice_id, t.role,
                                            t.radio_profile, t.speed, t.language,
                                            text_norm, path, gen.data, now))
                /\ last' = [call EXCEPT !.gen = gen, !.gen_calls = 1,
                                        !.has_audio = return_audio,
                                        !.audio = IF return_audio THEN gen.data ELSE <<>>,
                                        !.path = path, !.bytes = Len(gen.data)]
                /\ seen' = [seen EXCEPT !.calls = @ \cup {[t |-> t, key |-> key, audio |-> gen.data]}]
        /\ UNCHANGED <<wav, seg, http, asr, keyIn, keyOut, tampered, pc, loc>>

\* TtsCache.store_audio(..., text_norm, audio_bytes)
store_audio(t, audio_bytes) ==
    LET key  == make_key(t.model_version, t.voice_id, t.role, t.radio_profile,
                         t.speed, t.language, t.text)
        path == sharded_path(t.voice_id, key)
    IN  /\ now < MaxOps
        /\ now' = now + 1
        /\ dirs' = mkdir(dirs, path)
        /\ fs' = write_bytes(fs, path, audio_bytes)
        /\ db' = upsert(db, new_row(key, t.model_version, t.voice_id, t.role,
                                    t.radio_profile, t.speed, t.language,
                                    t.text, path, audio_bytes, now))
        /\ last' = [NoCall EXCEPT !.op = "store_audio", !.args = t, !.key = key,
                                  !.path = path, !.bytes = Len(audio_bytes),
                                  !.has_audio = TRUE, !.audio = audio_bytes]
        /\ seen' = [seen EXCEPT !.pure = FALSE]
        /\ UNCHANGED <<wav, seg, http, asr, keyIn, keyOut, tampered, pc, loc>>

\* TtsCache.clear()
clear ==
    /\ now < MaxOps
    /\ now' = now + 1
    /\ fs' = rmtree(fs)
    /\ dirs' = {}
    /\ db' = db_clear(db)
    /\ last' = [NoCall EXCEPT !.op = "clear"]
    /\ seen' = NoHistory
    /\ UNCHANGED <<wav, seg, http, asr, keyIn, keyOut, tampered, pc, loc>>

\* A blob file is removed behind the cache's back.
ExternalDeleteBlob(path) ==
    /\ now < MaxOps
    /\ path \in DOMAIN fs
    /\ now' = now + 1
    /\ fs' = [p \in DOMAIN fs \ {path} |-> fs[p]]
    /\ last' = [NoCall EXCEPT !.op = "delete_blob", !.path = path]
    /\ seen' = [seen EXCEPT !.pure = FALSE]
    /\ tampered' = TRUE
    /\ UNCHANGED <<wav, seg, http, asr, keyIn, keyOut, db, dirs, pc, loc>>

\* A row is removed behind the cache's back.
ExternalDeleteRow(key) ==
    /\ now < MaxOps
    /\ key \in DOMAIN db
    /\ now' = now + 1
    /\ db' = [k \in DOMAIN db \ {key} |-> db[k]]
    /\ last' = [NoCall EXCEPT !.op = "delete_row", !.key = key]
    /\ seen' = [seen EXCEPT !.pure = FALSE]
    /\ tampered' = TRUE
    /\ UNCHANGED <<wav, seg, http, asr, keyIn, keyOut, fs, dirs, pc, loc>>

\* The callers of SpecConc.
Procs == {1, 2}

\* The local variables of a caller that is in no call.
NoLocal == [call |-> NoCall, row |-> {}, data |-> <<>>, fd_live |-> FALSE, torn |-> FALSE]

\* SegmentationResult before segment_text has returned.
NoSegmentation == [segments |-> <<>>, delimiter |-> "none", pauses_ms |-> <<>>, boundary_types |-> <<>>]

\* The variables of SpecSeg, SpecTts and SpecAsr while another specification runs.
NoSeg == [text |-> Empty, base_pause_ms |-> <<>>, wrap_pause_ms |-> <<>>, done |-> FALSE,
          result |-> NoSegmentation]
NoHttp == [op |-> "none"]
NoWav == [op |-> "none"]

\* The handler threads of the transcription service (ThreadingMixIn).
Threads == {1, 2}

\* A handler thread that is serving no request.
NoRequest ==
    [ pc |-> "idle", attempts |-> 0, first_failed |-> FALSE, first_device |-> "none",
      reloaded |-> FALSE, second_failed |-> FALSE, status |-> 0, fallback |-> FALSE ]

NoAsr == [device |-> "cpu", started |-> 0, h |-> [t \in Threads |-> NoRequest]]

EmptyCache ==
    /\ db = [k \in {} |-> k]
    /\ fs = [p \in {} |-> p]
    /\ dirs = {}
    /\ now = 0
    /\ last = NoCall
    /\ seen = NoHistory
    /\ tampered = FALSE
    /\ pc = [p \in Procs |-> "idle"]
    /\ loc = [p \in Procs |-> NoLocal]

Init ==
    /\ keyIn = <<NoTuple, NoTuple>>
    /\ keyOut = NoKeys
    /\ EmptyCache
    /\ seg = NoSeg
    /\ http = NoHttp
    /\ wav = NoWav
    /\ asr = NoAsr

Next ==
    \/ \E t \in CacheTuples, gen \in Generators, return_audio \in BOOLEAN :
          get_or_generate(t, gen, return_audio)
    \/ \E t \in CacheTuples, audio_bytes \in Audio : store_audio(t, audio_bytes)
    \/ clear
    \/ \E path \in DOMAIN fs : ExternalDeleteBlob(path)
    \/ \E key \in DOMAIN db : ExternalDeleteRow(key)

Spec == Init /\ [][Next]_vars

InitKey ==
    /\ keyIn \in KeyTuples \X KeyTuples
    /\ keyOut = NoKeys
    /\ EmptyCache
    /\ seg = NoSeg
    /\ http = NoHttp
    /\ wav = NoWav
    /\ asr = NoAsr

NextKey == MakeKeys

SpecKey == InitKey /\ [][NextKey]_vars

---------------------------------------------------------------------------
(* SpecConc: several callers, one file-system or database step at a time   *)
(*                                                                         *)
(* TtsCache takes no lock and opens its connection with                    *)
(* check_same_thread=False; each SQL statement is one transaction and each *)
(* file-system call one step.  rmtree is taken as a single step.           *)

\* Number of calls the callers start between them.
MaxConcCalls == 3

\* Two tuples with different keys and one voice.
ConcTuples == { t \in CacheTuples : t.voice_id = <<"a">> /\ t.text = <<"x", " ", "y">> }

\* Concurrent callers leave return_audio at its default.
ConcReturnAudio == {TRUE}

Idle(p) == pc[p] = "idle"

\* The caller moves on inside its call.
Goto(p, label, l) ==
    /\ pc' = [pc EXCEPT ![p] = label]
    /\ loc' = [loc EXCEPT ![p] = l]
    /\ UNCHANGED last

\* The call returns or raises: its outcome becomes visible.
Return(p, call) ==
    /\ pc' = [pc EXCEPT ![p] = "idle"]
    /\ loc' = [loc EXCEPT ![p] = [NoLocal EXCEPT !.call = call]]
    /\ last' = call

\* get_or_generate is entered: text_norm and key are computed.
CallGetOrGenerate(p, t, gen, return_audio) ==
    /\ Idle(p) /\ now < MaxConcCalls
    /\ now' = now + 1
    /\ Goto(p, "fetch",
            [NoLocal EXCEPT !.call = [NoCall EXCEPT !.op = "get_or_generate", !.args = t,
                                                    !.gen = gen, !.return_audio = return_audio,
                                                    !.key = lookup_key(t)]])
    /\ UNCHANGED <<wav, seg, http, asr, keyIn, keyOut, db, fs, dirs, seen, tampered>>

\* get_cached: record = self.db.fetch(key)
Fetch(p) ==
    /\ pc[p] = "fetch"
    /\ LET rows == fetch(db, loc[p].call.key) IN
       Goto(p, IF rows = {} THEN "generate" ELSE "exists", [loc[p] EXCEPT !.row = rows])
    /\ UNCHANGED <<wav, seg, http, asr, keyIn, keyOut, db, fs, dirs, now, seen, tampered>>

\* get_cached: if not path.exists(): return None
Exists(p) ==
    /\ pc[p] = "exists"
    /\ LET r == CHOOSE x \in loc[p].row : TRUE IN
       IF r.path \in DOMAIN fs
       THEN Goto(p, "read", loc[p])
       ELSE Goto(p, "generate",
                 [loc[p] EXCEPT !.torn = \E q \in Procs \ {p} : pc[q] = "db_clear"])
    /\ UNCHANGED <<wav, seg, http, asr, keyIn, keyOut, db, fs, dirs, now, seen, tampered>>

\* get_cached: path.read_bytes(), which raises if the file has gone since.
Read(p) ==
    /\ pc[p] = "read"
    /\ LET r == CHOOSE x \in loc[p].row : TRUE IN
       IF r.path \in DOMAIN fs
       THEN Goto(p, "record_hit", [loc[p] EXCEPT !.data = fs[r.path]])
       ELSE Return(p, [loc[p].call EXCEPT !.raised = TRUE, !.error = "io"])
    /\ UNCHANGED <<wav, seg, http, asr, keyIn, keyOut, db, fs, dirs, now, seen, tampered>>

\* The hit path: record_hit, then the cached dict is returned.
RecordHit(p) ==
    /\ pc[p] = "record_hit"
    /\ LET r == CHOOSE x \in loc[p].row : TRUE
           c == loc[p].call
       IN
       /\ db' = record_hit(db, c.key, now)
       /\ Return(p, [c EXCEPT !.from_cache = TRUE,
                              !.has_audio = c.return_audio,
                              !.audio = IF c.return_audio THEN loc[p].data ELSE <<>>,
                              !.path = r.path, !.bytes = r.bytes,
                              !.hit_count = r.hit_count + 1])
    /\ UNCHANGED <<wav, seg, http, asr, keyIn, keyOut, fs, dirs, now, seen, tampered>>

\* The miss path: audio_bytes = generator(); path = self._sharded_path(...)
Generate(p) ==
    /\ pc[p] = "generate"
    /\ LET c == loc[p].call IN
       IF c.gen.raises
       THEN Return(p, [c EXCEPT !.raised = TRUE, !.error = "generator", !.gen_calls = 1])
       ELSE Goto(p, "mkdir",
                 [loc[p] EXCEPT !.data = c.gen.data,
                                !.call = [c EXCEPT !.gen_calls = 1,
                                                   !.path = sharded_path(c.args.voice_id, c.key)]])
    /\ UNCHANGED <<wav, seg, http, asr, keyIn, keyOut, db, fs, dirs, now, seen, tampered>>

\* store_audio is entered: key and path are computed from text_norm as given.
CallStoreAudio(p, t, audio_bytes) ==
    /\ Idle(p) /\ now < MaxConcCalls
    /\ now' = now + 1
    /\ Goto(p, "mkdir",
            [NoLocal EXCEPT !.data = audio_bytes,
                            !.call = [NoCall EXCEPT !.op = "store_audio", !.args = t,
                                                    !.key = key_of(t),
                                                    !.path = sharded_path(t.voice_id, key_of(t))]])
    /\ UNCHANGED <<wav, seg, http, asr, keyIn, keyOut, db, fs, dirs, seen, tampered>>

\* path.parent.mkdir(parents=True, exist_ok=True)
Mkdir(p) ==
    /\ pc[p] = "mkdir"
    /\ dirs' = mkdir(dirs, loc[p].call.path)
    /\ Goto(p, "open", loc[p])
    /\ UNCHANGED <<wav, seg, http, asr, keyIn, keyOut, db, fs, now, seen, tampered>>

\* path.write_bytes, first half: open(path, "wb") creates or truncates the
\* file, and raises if the directory has been removed since mkdir.
Open(p) ==
    /\ pc[p] = "open"
    /\ IF parent(loc[p].call.path) \in dirs
       THEN /\ fs' = write_bytes(fs, loc[p].call.path, <<>>)
            /\ Goto(p, "write", [loc[p] EXCEPT !.fd_live = TRUE])
       ELSE /\ fs' = fs
            /\ Return(p, [loc[p].call EXCEPT !.raised = TRUE, !.error = "io"])
    /\ UNCHANGED <<wav, seg, http, asr, keyIn, keyOut, db, dirs, now, seen, tampered>>

\* What a file holds after data is written at offset 0 over old content.
overwrite(old, data) == data \o SubSeq(old, Len(data) + 1, Len(old))

\* path.write_bytes, second half: the bytes are written from offset 0 through
\* the open descriptor; they land in the file at path unless it was unlinked.
Write(p) ==
    /\ pc[p] = "write"
    /\ LET path == loc[p].call.path IN
       fs' = IF loc[p].fd_live /\ path \in DOMAIN fs
             THEN [fs EXCEPT ![path] = overwrite(fs[path], loc[p].data)]
             ELSE fs
    /\ Goto(p, "upsert", [loc[p] EXCEPT !.fd_live = FALSE])
    /\ UNCHANGED <<wav, seg, http, asr, keyIn, keyOut, db, dirs, now, seen, tampered>>

\* self.db.upsert({...}), then the result dict is returned.
Upsert(p) ==
    /\ pc[p] = "upsert"
    /\ LET c == loc[p].call
           t == c.args
           text_norm == IF c.op = "store_audio" THEN t.text ELSE normalize_text(t.text)
           returned  == c.op = "store_audio" \/ c.return_audio
       IN
       /\ db' = upsert(db, new_row(c.key, t.model_version, t.voice_id, t.role, t.radio_profile,
                                   t.speed, t.language, text_norm, c.path, loc[p].data, now))
       /\ Return(p, [c EXCEPT !.has_audio = returned,
                              !.audio = IF returned THEN loc[p].data ELSE <<>>,
                              !.bytes = Len(loc[p].data)])
    /\ UNCHANGED <<wav, seg, http, asr, keyIn, keyOut, fs, dirs, now, seen, tampered>>

\* clear is entered.
CallClear(p) ==
    /\ Idle(p) /\ now < MaxConcCalls
    /\ now' = now + 1
    /\ Goto(p, "rmtree", [NoLocal EXCEPT !.call = [NoCall EXCEPT !.op = "clear"]])
    /\ UNCHANGED <<wav, seg, http, asr, keyIn, keyOut, db, fs, dirs, seen, tampered>>

\* shutil.rmtree(self.cache_dir, ignore_errors=True); self.cache_dir.mkdir(...)
\* Files that callers hold open are unlinked with the rest.
Rmtree(p) ==
    /\ pc[p] = "rmtree"
    /\ fs' = rmtree(fs)
    /\ dirs' = {}
    /\ pc' = [pc EXCEPT ![p] = "db_clear"]
    /\ loc' = [q \in Procs |-> [loc[q] EXCEPT !.fd_live = FALSE]]
    /\ UNCHANGED <<wav, seg, http, asr, keyIn, keyOut, db, now, last, seen, tampered>>

\* self.db.clear(), then clear returns.
DbClear(p) ==
    /\ pc[p] = "db_clear"
    /\ db' = db_clear(db)
    /\ Return(p, loc[p].call)
    /\ UNCHANGED <<wav, seg, http, asr, keyIn, keyOut, fs, dirs, now, seen, tampered>>

\* TtsCache.stats(): one SELECT.
Stats(p) ==
    /\ Idle(p) /\ now < MaxConcCalls
    /\ now' = now + 1
    /\ Return(p, [NoCall EXCEPT !.op = "stats", !.items = stats(db).items,
                                !.bytes = stats(db).bytes])
    /\ UNCHANGED <<wav, seg, http, asr, keyIn, keyOut, db, fs, dirs, seen, tampered>>

\* A get_or_generate or store_audio call stops between two of its steps and
\* never resumes: its request is dropped, or a step raised out of the call.
Abandon(p) ==
    /\ pc[p] \in {"fetch", "exists", "read", "record_hit", "generate", "mkdir", "open", "write", "upsert"}
    /\ pc' = [pc EXCEPT ![p] = "idle"]
    /\ loc' = [loc EXCEPT ![p] = NoLocal]
    /\ UNCHANGED <<wav, seg, http, asr, keyIn, keyOut, db, fs, dirs, now, last, seen, tampered>>

NextConc ==
    \E p \in Procs :
        \/ \E t \in ConcTuples, gen \in Generators, return_audio \in ConcReturnAudio :
              CallGetOrGenerate(p, t, gen, return_audio)
        \/ Fetch(p)
        \/ Exists(p)
        \/ Read(p)
        \/ RecordHit(p)
        \/ Generate(p)
        \/ \E t \in ConcTuples, audio_bytes \in Audio : CallStoreAudio(p, t, audio_bytes)
        \/ Mkdir(p)
        \/ Open(p)
        \/ Write(p)
        \/ Upsert(p)
        \/ CallClear(p)
        \/ Rmtree(p)
        \/ DbClear(p)
        \/ Stats(p)
        \/ Abandon(p)

SpecConc == Init /\ [][NextConc]_vars

---------------------------------------------------------------------------
(* Segmenter (segmentation.py)                                             *)
(*                                                                         *)
(* The splitting operators locate their cut points by index, so that a     *)
(* text of several hundred characters is cut without one level of          *)
(* recursion per character.                                                *)

\* _PUNCT_BREAKS
PUNCT_BREAKS == {".", "?", "!", ";"}

\* Optional[int]: None is <<>> and the integer n is <<n>>.
NoInt == <<>>

\* The elements of a finite set of integers, in increasing order.
sorted(S) == [n \in 1..Cardinality(S) |-> CHOOSE x \in S : Cardinality({y \in S : y < x}) = n - 1]

\* The sequence without its empty members: [p for p in parts if p]
nonempty(parts) == SelectSeq(parts, LAMBDA p : p # <<>>)

\* str.split(): the maximal runs of non-whitespace characters, in order.
words(s) ==
    LET first == sorted({i \in 1..Len(s) : s[i] \notin Whitespace /\ (i = 1 \/ s[i - 1] \in Whitespace)})
        final == sorted({i \in 1..Len(s) : s[i] \notin Whitespace /\ (i = Len(s) \/ s[i + 1] \in Whitespace)})
    IN  [n \in 1..Len(first) |-> SubSeq(s, first[n], final[n])]

\* _normalize_segment_text that only strips the ends.
normalize_segment_text_strip_only(text) == strip(text)

\* _normalize_segment_text: " ".join(text.strip().split())
normalize_segment_text(text) == join(<<" ">>, words(strip(text)))

\* The pieces of s between the positions in D, the empty ones included:
\* s.split(sep) for the positions D at which sep stands.
split_at(s, D) ==
    LET d == sorted(D)
        lo(n) == IF n = 1 THEN 1 ELSE d[n - 1] + 1
        hi(n) == IF n = Len(d) + 1 THEN Len(s) ELSE d[n] - 1
    IN  [n \in 1..(Len(d) + 1) |-> SubSeq(s, lo(n), hi(n))]

\* The characters consumed by the matches of r"\r?\n+": every line feed,
\* and every carriage return that stands directly before a line feed.
newline_matches(s) ==
    {i \in 1..Len(s) : s[i] = "\n" \/ (s[i] = "\r" /\ i < Len(s) /\ s[i + 1] = "\n")}

\* _split_punct that cuts after every space as well.
split_punct_at_spaces(text) ==
    LET p == sorted({i \in 1..Len(text) : text[i] \in PUNCT_BREAKS \cup {" "}})
        lo(n) == IF n = 1 THEN 1 ELSE p[n - 1] + 1
        segments == [n \in 1..Len(p) |-> normalize_segment_text(SubSeq(text, lo(n), p[n]))]
        tail == normalize_segment_text(SubSeq(text, lo(Len(p) + 1), Len(text)))
    IN  nonempty(segments) \o (IF tail # <<>> THEN <<tail>> ELSE <<>>)

\* _split_punct: cut after each of . ? ! ; and drop the pieces that
\* normalize to nothing.
split_punct(text) ==
    LET p == sorted({i \in 1..Len(text) : text[i] \in PUNCT_BREAKS})
        lo(n) == IF n = 1 THEN 1 ELSE p[n - 1] + 1
        segments == [n \in 1..Len(p) |-> normalize_segment_text(SubSeq(text, lo(n), p[n]))]
        tail == normalize_segment_text(SubSeq(text, lo(Len(p) + 1), Len(text)))
    IN  nonempty(segments) \o (IF tail # <<>> THEN <<tail>> ELSE <<>>)

\* The hard split of an over-long word that keeps its first slice only.
slices_first_only(word, max_len) == << SubSeq(word, 1, max_len) >>

\* [word[i : i + max_len] for i in range(0, len(word), max_len)]
slices(word, max_len) ==
    [n \in 1..((Len(word) + max_len - 1) \div max_len) |->
        SubSeq(word, (n - 1) * max_len + 1,
               IF n * max_len < Len(word) THEN n * max_len ELSE Len(word))]

\* The word loop of _split_long_segment, and the flush of current after it.
RECURSIVE wrap_words(_, _, _, _)
wrap_words(ws, current, chunks, max_len) ==
    IF ws = <<>> THEN (IF current # <<>> THEN Append(chunks, current) ELSE chunks)
    ELSE LET word == Head(ws)
             candidate == current \o <<" ">> \o word
         IN  IF current = <<>>
             THEN IF Len(word) <= max_len
                  THEN wrap_words(Tail(ws), word, chunks, max_len)
                  ELSE wrap_words(Tail(ws), <<>>, chunks \o slices(word, max_len), max_len)
             ELSE IF Len(candidate) <= max_len
                  THEN wrap_words(Tail(ws), candidate, chunks, max_len)
                  ELSE wrap_words(Tail(ws), word, Append(chunks, current), max_len)

\* The merge of a short trailing chunk into the chunk before it.
merge_tail(chunks, max_len, min_len) ==
    LET n == Len(chunks) IN
    IF n >= 2 /\ Len(chunks[n]) < min_len /\ Len(chunks[n - 1] \o <<" ">> \o chunks[n]) <= max_len
    THEN SubSeq(chunks, 1, n - 2) \o << chunks[n - 1] \o <<" ">> \o chunks[n] >>
    ELSE chunks

\* _split_long_segment(segment, max_len=..., min_len=...)
split_long_segment(segment, max_len, min_len) ==
    LET s == normalize_segment_text(segment) IN
    IF s = <<>> THEN <<>>
    ELSE IF Len(s) <= max_len THEN <<s>>
    ELSE LET chunks == merge_tail(wrap_words(words(s), <<>>, <<>>, max_len), max_len, min_len)
         IN  nonempty([n \in 1..Len(chunks) |-> normalize_segment_text(chunks[n])])

\* _clamp_pause
clamp_pause(val, default) ==
    IF val = NoInt THEN default
    ELSE IF val[1] < 0 THEN 0 ELSE IF val[1] > 1000 THEN 1000 ELSE val[1]

\* segment_text: the delimiter mode and the chunks cut at that delimiter.
segment_base(raw) ==
    IF \E i \in 1..Len(raw) : raw[i] = "|"
    THEN [ delimiter |-> "pipe",
           base |-> LET parts == split_at(raw, {i \in 1..Len(raw) : raw[i] = "|"})
                    IN  nonempty([n \in 1..Len(parts) |-> normalize_segment_text(parts[n])]) ]
    ELSE IF \E i \in 1..Len(raw) : raw[i] \in {"\n", "\r"}
    THEN [ delimiter |-> "newline",
           base |-> LET parts == split_at(raw, newline_matches(raw))
                    IN  nonempty([n \in 1..Len(parts) |-> normalize_segment_text(parts[n])]) ]
    ELSE [ delimiter |-> IF \E i \in 1..Len(raw) : raw[i] \in PUNCT_BREAKS THEN "punct" ELSE "none",
           base |-> split_punct(raw) ]

\* The loop of segment_text without its sub_idx test: a wrapped sub-chunk
\* gets the boundary of its chunk.
RECURSIVE collect_segments_all_hard(_, _, _, _, _)
collect_segments_all_hard(base, delimiter, base_pause, wrap_pause, acc) ==
    IF base = <<>> THEN acc
    ELSE LET subs == split_long_segment(Head(base), 220, 160)
             hard == IF delimiter \in {"pipe", "newline"} THEN "hard" ELSE "soft"
             boundary(n) == hard
             \* the boundaries of the sub-chunks that are not the first segment
             from == IF acc.segments = <<>> THEN 2 ELSE 1
             bounds == [n \in 1..(Len(subs) - from + 1) |-> boundary(n + from - 1)]
         IN  collect_segments_all_hard(Tail(base), delimiter, base_pause, wrap_pause,
                 [ segments |-> acc.segments \o subs,
                   boundary_types |-> acc.boundary_types \o bounds,
                   pauses_ms |-> acc.pauses_ms \o
                       [n \in 1..Len(bounds) |-> IF bounds[n] = "hard" THEN base_pause ELSE wrap_pause] ])

\* segment_text: the loop over the chunks and their sub-chunks, which
\* appends a boundary and a pause before every segment but the first.
RECURSIVE collect_segments(_, _, _, _, _)
collect_segments(base, delimiter, base_pause, wrap_pause, acc) ==
    IF base = <<>> THEN acc
    ELSE LET subs == split_long_segment(Head(base), 220, 160)
             hard == IF delimiter \in {"pipe", "newline"} THEN "hard" ELSE "soft"
             boundary(n) == IF n > 1 THEN "soft" ELSE hard
             \* the boundaries of the sub-chunks that are not the first segment
             from == IF acc.segments = <<>> THEN 2 ELSE 1
             bounds == [n \in 1..(Len(subs) - from + 1) |-> boundary(n + from - 1)]
         IN  collect_segments(Tail(base), delimiter, base_pause, wrap_pause,
                 [ segments |-> acc.segments \o subs,
                   boundary_types |-> acc.boundary_types \o bounds,
                   pauses_ms |-> acc.pauses_ms \o
                       [n \in 1..Len(bounds) |-> IF bounds[n] = "hard" THEN base_pause ELSE wrap_pause] ])

\* segment_text(text, base_pause_ms=..., wrap_pause_ms=...)
segment_text(text, base_pause_ms, wrap_pause_ms) ==
    LET cut == segment_base(text)
        base_pause_default == IF cut.delimiter \in {"pipe", "newline"} THEN 70 ELSE 35
        result == collect_segments(cut.base, cut.delimiter,
                                   clamp_pause(base_pause_ms, base_pause_default),
                                   clamp_pause(wrap_pause_ms, 35),
                                   [segments |-> <<>>, boundary_types |-> <<>>, pauses_ms |-> <<>>])
    IN  [ segments |-> result.segments, delimiter |-> cut.delimiter,
          pauses_ms |-> result.pauses_ms, boundary_types |-> result.boundary_types ]

---------------------------------------------------------------------------
(* SpecSeg: segment_text on bounded texts                                  *)

\* Number of tokens a text is put together from.
MaxTokens == 4

\* n copies of a character.
rep(ch, n) == [i \in 1..n |-> ch]

\* What texts are put together from: a short word, a word of half the
\* wrap length with its space, a token longer than the wrap length, and
\* the characters segment_text looks for.
SegTokens ==
    { <<"a">>, rep("b", 110) \o <<" ">>, rep("c", 221),
      <<" ">>, <<"|">>, <<"\n">>, <<"\r">>, <<".">> }

RECURSIVE TokenTexts(_)
TokenTexts(n) ==
    IF n = 0 THEN {<<>>}
    ELSE LET shorter == TokenTexts(n - 1) IN shorter \cup {t \o k : t \in shorter, k \in SegTokens}

\* The texts of the segmentation tests that the tokens do not give.
SegExamples ==
    { <<"a", " ", "|", " ", "b", " ", "|", " ", "c">>,
      <<"a", "\n", "\n", "b", "\r", "\n", "c">>,
      <<"a", ".", " ", "b", "!", " ", "c", ";">> }

SegTexts == TokenTexts(MaxTokens) \cup SegExamples

\* The pause arguments callers pass: none, or one above the clamp.
SegPauses == { NoInt, <<1200>> }

InitSeg ==
    /\ seg \in [ text : SegTexts, base_pause_ms : SegPauses, wrap_pause_ms : {NoInt},
                 done : {FALSE}, result : {NoSegmentation} ]
    /\ http = NoHttp
    /\ wav = NoWav
    /\ asr = NoAsr
    /\ keyIn = <<NoTuple, NoTuple>>
    /\ keyOut = NoKeys
    /\ EmptyCache

\* res = segment_text(text, base_pause_ms=..., wrap_pause_ms=...)
SegmentText ==
    /\ ~seg.done
    /\ seg' = [seg EXCEPT !.done = TRUE,
                          !.result = segment_text(seg.text, seg.base_pause_ms, seg.wrap_pause_ms)]
    /\ UNCHANGED <<wav, http, asr, keyIn, keyOut, db, fs, dirs, now, last, seen, tampered, pc, loc>>

NextSeg == SegmentText

SpecSeg == InitSeg /\ [][NextSeg]_vars

---------------------------------------------------------------------------
(* SpecTts: the /tts and /prefetch handlers (xtts_service/app.py)          *)
(*                                                                         *)
(* One whole request per step; the handlers never yield, so requests are   *)
(* served one after the other.  A request carries its text as              *)
(* normalize_atc leaves it, names its voice, may override the pauses, and   *)
(* leaves role, speed, language and radio intensity at their defaults.     *)
(* The cache is                                                            *)
(* the value [db, fs, dirs] threaded through the lookups of a request.     *)
(* Audio is a sequence that says how it was made and from what.            *)

\* Number of requests served.
MaxRequests == 3

\* voices/<id>/meta.json and the reference audio next to it.
Voices ==
    { [id |-> <<"a">>, engine |-> "xtts", reference |-> TRUE],
      [id |-> <<"n">>, engine |-> "xtts", reference |-> FALSE],
      [id |-> <<"v">>, engine |-> "coqui_vits", reference |-> FALSE] }

\* VoiceStore.get: the voice as a one-element set, or the empty set.
voices_get(voice_id) == {v \in Voices : v.id = voice_id}

\* RADIO_PROFILES
RADIO_PROFILES ==
    { <<"c", "l", "e", "a", "n">>, <<"v", "h", "f">>, <<"c", "o", "c", "k", "p", "i", "t">>,
      <<"t", "i", "n", "n", "y">>, <<"v", "a", "t", "s", "i", "m">>,
      <<"c", "o", "n", "g", "e", "s", "t", "e", "d">> }

validate_radio_profile(name) == name \in RADIO_PROFILES

\* not body.radio_profile or body.radio_profile == "clean"
no_radio(radio_profile) == radio_profile \in {None, Empty, <<"c", "l", "e", "a", "n">>}

\* PhrasePacks.get_phrases(pack_id, limit=None), for a library of one pack.
get_phrases(pack_id) == IF pack_id = "p" THEN << <<"x">>, <<"y">> >> ELSE <<>>

\* TtsEngine.model_version_for_voice
model_version_for_voice(voice) == IF voice.engine = "coqui_vits" THEN <<"c">> ELSE <<"m">>

\* f"{voice_model_version}|radio_dsp:{RADIO_DSP_VERSION}|ri:{radio_intensity:.2f}",
\* with "d" for the DSP version and the intensity.
radio_model_version(voice_model_version) == voice_model_version \o <<"|", "d">>

\* _resolve_ref_wav that lets a voice without reference audio through.
resolve_ref_wav_unchecked(voice) == [raises |-> FALSE, ref_wav |-> voice.reference]

\* _resolve_ref_wav: no reference for coqui_vits, HTTP 400 for an xtts
\* voice without valid reference audio.
resolve_ref_wav(voice) ==
    IF voice.engine = "coqui_vits" THEN [raises |-> FALSE, ref_wav |-> FALSE]
    ELSE [raises |-> ~voice.reference, ref_wav |-> voice.reference]

\* TtsEngine.synthesize_for_voice(...).wav_bytes, for an engine whose model
\* call succeeds (engine_ok) or fails.  failed says the model call failed.
synthesize_for_voice(text, voice, speaker_wav, engine_ok) ==
    IF strip(text) = Empty
    THEN [raises |-> TRUE, status |-> 500, data |-> <<>>, failed |-> FALSE]
    ELSE IF voice.engine = "coqui_vits"
    THEN IF engine_ok
         THEN [raises |-> FALSE, status |-> 200, data |-> <<"vits">> \o text, failed |-> FALSE]
         ELSE [raises |-> TRUE, status |-> 500, data |-> <<>>, failed |-> TRUE]
    ELSE IF ~speaker_wav
    THEN [raises |-> TRUE, status |-> 500, data |-> <<>>, failed |-> FALSE]
    ELSE IF engine_ok
         THEN [raises |-> FALSE, status |-> 200, data |-> <<"xtts">> \o text, failed |-> FALSE]
         ELSE [raises |-> FALSE, status |-> 200, data |-> <<"sine">> \o text, failed |-> TRUE]

\* apply_radio_profile(audio, profile=..., radio_intensity=...)
apply_radio_profile(audio, profile) ==
    IF no_radio(profile) \/ profile \notin RADIO_PROFILES THEN audio ELSE <<"radio">> \o audio

\* stitch_wavs(trimmed_wavs, ...): the segments in order, a pause between them.
RECURSIVE stitch_wavs(_)
stitch_wavs(wavs) ==
    IF wavs = <<>> THEN <<>>
    ELSE IF Len(wavs) = 1 THEN wavs[1]
    ELSE wavs[1] \o <<"pause">> \o stitch_wavs(Tail(wavs))

\* lookup_fields that leaves the radio profile out of the key fields.
lookup_fields_no_profile(model_version, voice_id, radio_profile, text) ==
    [ model_version |-> model_version, voice_id |-> voice_id, role |-> None,
      radio_profile |-> None, speed |-> 10000, language |-> <<"e">>, text |-> text ]

\* The key fields of a lookup made by the handlers.
lookup_fields(model_version, voice_id, radio_profile, text) ==
    [ model_version |-> model_version, voice_id |-> voice_id, role |-> None,
      radio_profile |-> radio_profile, speed |-> 10000, language |-> <<"e">>, text |-> text ]

\* get_or_generate that runs the generator before it looks in the cache.
cache_get_or_generate_eager(c, time, t, gen) ==
    LET text_norm == normalize_text(t.text)
        key       == make_key(t.model_version, t.voice_id, t.role, t.radio_profile,
                              t.speed, t.language, text_norm)
        cached    == get_cached(c.db, c.fs, key)
        path      == sharded_path(t.voice_id, key)
        res       == [key |-> key, clean |-> t.radio_profile = None, from_cache |-> FALSE,
                      raised |-> FALSE, status |-> 200, audio |-> <<>>, gen_calls |-> 1,
                      failed |-> gen.failed, cache |-> c]
    IN  IF gen.raises
        THEN [res EXCEPT !.raised = TRUE, !.status = gen.status]
        ELSE IF cached # {}
        THEN [res EXCEPT !.from_cache = TRUE, !.audio = (CHOOSE x \in cached : TRUE).audio,
                         !.cache = [c EXCEPT !.db = record_hit(c.db, key, time)]]
        ELSE [res EXCEPT !.audio = gen.data,
                         !.cache = [ dirs |-> mkdir(c.dirs, path),
                                     fs |-> write_bytes(c.fs, path, gen.data),
                                     db |-> upsert(c.db, new_row(key, t.model_version, t.voice_id,
                                                t.role, t.radio_profile, t.speed, t.language,
                                                text_norm, path, gen.data, time)) ]]

\* TtsCache.get_or_generate as a function of the cache: what it returns,
\* whether the generator ran, and the cache it leaves.  gen is what the
\* generator would do if called.
cache_get_or_generate(c, time, t, gen) ==
    LET text_norm == normalize_text(t.text)
        key       == make_key(t.model_version, t.voice_id, t.role, t.radio_profile,
                              t.speed, t.language, text_norm)
        cached    == get_cached(c.db, c.fs, key)
        path      == sharded_path(t.voice_id, key)
        res       == [key |-> key, clean |-> t.radio_profile = None, from_cache |-> FALSE,
                      raised |-> FALSE, status |-> 200, audio |-> <<>>, gen_calls |-> 0,
                      failed |-> FALSE, cache |-> c]
    IN  IF cached # {}
        THEN [res EXCEPT !.from_cache = TRUE, !.audio = (CHOOSE x \in cached : TRUE).audio,
                         !.cache = [c EXCEPT !.db = record_hit(c.db, key, time)]]
        ELSE IF gen.raises
        THEN [res EXCEPT !.raised = TRUE, !.status = gen.status, !.gen_calls = 1,
                         !.failed = gen.failed]
        ELSE [res EXCEPT !.audio = gen.data, !.gen_calls = 1, !.failed = gen.failed,
                         !.cache = [ dirs |-> mkdir(c.dirs, path),
                                     fs |-> write_bytes(c.fs, path, gen.data),
                                     db |-> upsert(c.db, new_row(key, t.model_version, t.voice_id,
                                                t.role, t.radio_profile, t.speed, t.language,
                                                text_norm, path, gen.data, time)) ]]

\* What a request leaves behind: the response (status, detail, the cache
\* headers, the body) and what the handler did on the way (the cache
\* lookups and the synthesize_for_voice calls, in order, and the pauses_ms
\* handed to stitch_wavs).
NoResponse ==
    [ status |-> 0, detail |-> "", mode |-> "none", cache |-> "none", segments |-> 0,
      hits |-> 0, body |-> <<>>, lookups |-> <<>>, synth |-> <<>>, pauses |-> <<>> ]

\* raise HTTPException(status_code=..., detail=...), or an exception that
\* nothing handles (500), after the lookups and calls made so far.
http_error(c, status, detail, lookups, synth) ==
    [ cache |-> c,
      resp |-> [NoResponse EXCEPT !.status = status, !.detail = detail,
                                  !.lookups = lookups, !.synth = synth] ]

\* The trace entry of a lookup, and of the synthesis call it made, if any.
lookup_entry(res) ==
    [ key |-> res.key, clean |-> res.clean, from_cache |-> res.from_cache,
      raised |-> res.raised, gen_calls |-> res.gen_calls ]

synth_entries(res, text) ==
    IF res.gen_calls = 1 THEN << [text |-> text, key |-> res.key, failed |-> res.failed] >> ELSE <<>>

\* X-Cache that says HIT as soon as one segment was served from the cache.
cache_header_any_hit(hits, total) ==
    IF hits > 0 THEN "HIT" ELSE IF hits = 0 THEN "MISS" ELSE "MIXED"

\* X-Cache of a segment-mode response with caching enabled.
cache_header(hits, total) ==
    IF hits = total THEN "HIT" ELSE IF hits = 0 THEN "MISS" ELSE "MIXED"

\* tts, full mode, caching disabled.
tts_full_uncached(c, body, voice, ref_wav, engine_ok) ==
    LET text_norm == normalize_text(body.text)
        base      == synthesize_for_voice(text_norm, voice, ref_wav, engine_ok)
        call      == << [text |-> text_norm, key |-> hash_key(Empty), failed |-> base.failed] >>
    IN  IF text_norm = Empty
        THEN http_error(c, 400, "Text is empty after normalization.", <<>>, <<>>)
        ELSE IF base.raises THEN http_error(c, base.status, "synthesis", <<>>, call)
        ELSE [ cache |-> c,
               resp |-> [NoResponse EXCEPT !.status = 200, !.mode = "disabled", !.cache = "OFF",
                            !.body = apply_radio_profile(base.data, body.radio_profile),
                            !.synth = call] ]

\* The 200 response of full mode with caching enabled, for the lookup
\* whose audio is returned.
full_response(result, lookups, synth) ==
    [ cache |-> result.cache,
      resp |-> [NoResponse EXCEPT !.status = 200, !.mode = "full",
                   !.cache = IF result.from_cache THEN "HIT" ELSE "MISS",
                   !.body = result.audio, !.lookups = lookups, !.synth = synth] ]

\* tts, full mode, caching enabled: the clean render first, then the
\* processed render derived from it when a radio profile is asked for.
tts_full(c, time, body, voice, ref_wav, engine_ok) ==
    LET text_norm == normalize_text(body.text)
        version   == model_version_for_voice(voice)
    IN  IF text_norm = Empty
        THEN http_error(c, 400, "Text is empty after normalization.", <<>>, <<>>)
        ELSE CHOOSE out \in
            { IF base_result.raised
              THEN http_error(base_result.cache, base_result.status, "synthesis",
                              << lookup_entry(base_result) >>, synth_entries(base_result, text_norm))
              ELSE IF no_radio(body.radio_profile)
              THEN full_response(base_result, << lookup_entry(base_result) >>,
                                 synth_entries(base_result, text_norm))
              ELSE CHOOSE radio \in
                  { full_response(processed,
                                  << lookup_entry(base_result), lookup_entry(processed) >>,
                                  synth_entries(base_result, text_norm)) :
                      processed \in
                          { cache_get_or_generate(base_result.cache, time,
                                lookup_fields(radio_model_version(version), voice.id,
                                              body.radio_profile, text_norm),
                                [raises |-> FALSE, status |-> 200, failed |-> FALSE,
                                 data |-> apply_radio_profile(base_result.audio,
                                                              body.radio_profile)]) } } : TRUE :
                base_result \in
                    { cache_get_or_generate(c, time,
                          lookup_fields(version, voice.id, None, text_norm),
                          synthesize_for_voice(text_norm, voice, ref_wav, engine_ok)) } } : TRUE

\* The loop over seg.segments with caching enabled; it ends at the first
\* lookup that raises.
RECURSIVE cached_segments(_, _, _, _, _, _, _)
cached_segments(segments, time, voice, ref_wav, engine_ok, i, acc) ==
    IF i > Len(segments) \/ acc.raised THEN acc
    ELSE CHOOSE rest \in
        { cached_segments(segments, time, voice, ref_wav, engine_ok, i + 1,
              [ cache |-> res.cache, raised |-> res.raised, status |-> res.status,
                wavs |-> IF res.raised THEN acc.wavs ELSE Append(acc.wavs, res.audio),
                lookups |-> Append(acc.lookups, lookup_entry(res)),
                synth |-> acc.synth \o synth_entries(res, segments[i]) ]) :
            res \in
                { cache_get_or_generate(acc.cache, time,
                      lookup_fields(model_version_for_voice(voice), voice.id, None, segments[i]),
                      synthesize_for_voice(segments[i], voice, ref_wav, engine_ok)) } } : TRUE

\* The loop with caching disabled that goes through the cache all the same.
uncached_segments_cached(segments, voice, ref_wav, engine_ok, i, acc) ==
    cached_segments(segments, 0, voice, ref_wav, engine_ok, i, acc)

\* The loop over seg.segments with caching disabled.
RECURSIVE uncached_segments(_, _, _, _, _, _)
uncached_segments(segments, voice, ref_wav, engine_ok, i, acc) ==
    IF i > Len(segments) \/ acc.raised THEN acc
    ELSE LET out == synthesize_for_voice(segments[i], voice, ref_wav, engine_ok)
         IN  uncached_segments(segments, voice, ref_wav, engine_ok, i + 1,
                 [ acc EXCEPT !.raised = out.raises, !.status = out.status,
                              !.wavs = IF out.raises THEN @ ELSE Append(@, out.data),
                              !.synth = Append(@, [text |-> segments[i], key |-> hash_key(Empty),
                                                   failed |-> out.failed]) ])

\* hard_pause and soft_pause of tts: the override of the request, else the
\* default.  The body's field is the value of whichever of the two names
\* of the override (hard_pause_ms, pause_hard_ms) was given.
hard_pause(body) == IF body.hard_pause_ms = NoInt THEN 70 ELSE body.hard_pause_ms[1]

soft_pause(body) == IF body.soft_pause_ms = NoInt THEN 35 ELSE body.soft_pause_ms[1]

\* pauses_ms of tts: the list handed to stitch_wavs, one pause per boundary.
stitch_pauses_ms(body, boundary_types) ==
    [i \in 1..Len(boundary_types) |->
        IF boundary_types[i] = "hard" THEN hard_pause(body) ELSE soft_pause(body)]

\* The end of tts in segment mode: the renders are stitched, the radio
\* profile is applied and the cache headers are set.
segment_response(body, pauses_ms, done) ==
    LET total == Len(done.wavs)
        hits  == Cardinality({i \in 1..Len(done.lookups) : done.lookups[i].from_cache})
    IN  IF done.raised
        THEN http_error(done.cache, done.status, "synthesis", done.lookups, done.synth)
        ELSE [ cache |-> done.cache,
               resp |-> [ status |-> 200, detail |-> "",
                          mode |-> IF body.cache_enabled THEN "segment" ELSE "disabled",
                          cache |-> IF body.cache_enabled THEN cache_header(hits, total) ELSE "OFF",
                          segments |-> total,
                          hits |-> IF body.cache_enabled THEN hits ELSE 0,
                          body |-> apply_radio_profile(stitch_wavs(done.wavs), body.radio_profile),
                          lookups |-> done.lookups, synth |-> done.synth,
                          pauses |-> pauses_ms ] ]

\* tts, segment mode: the text is segmented, every segment is looked up or
\* synthesized, and the renders are stitched.
tts_segment(c, time, body, voice, ref_wav, engine_ok) ==
    LET start == [cache |-> c, raised |-> FALSE, status |-> 200, wavs |-> <<>>,
                  lookups |-> <<>>, synth |-> <<>>]
    IN  CHOOSE out \in
            { IF sg.segments = <<>>
              THEN http_error(c, 400, "Text is empty after segmentation.", <<>>, <<>>)
              ELSE CHOOSE stitched \in
                  { segment_response(body, stitch_pauses_ms(body, sg.boundary_types), done) :
                      done \in
                          { IF body.cache_enabled
                            THEN cached_segments(sg.segments, time, voice, ref_wav, engine_ok, 1, start)
                            ELSE uncached_segments(sg.segments, voice, ref_wav, engine_ok, 1, start) } } : TRUE :
                sg \in { segment_text(body.text, <<hard_pause(body)>>, <<soft_pause(body)>>) } } : TRUE

\* tts(body): the checks in the order of the handler, then the mode chosen
\* by TTS_CACHE_MODE and the cache_enabled setting.
tts(c, time, body, engine_ok) ==
    IF body.format # "wav"
    THEN http_error(c, 400, "Only wav output is supported.", <<>>, <<>>)
    ELSE IF voices_get(body.voice_id) = {}
    THEN http_error(c, 404, "Voice not found.", <<>>, <<>>)
    ELSE LET voice == CHOOSE v \in voices_get(body.voice_id) : TRUE
             ref   == resolve_ref_wav(voice)
         IN  IF body.radio_profile \notin {None, Empty} /\ ~validate_radio_profile(body.radio_profile)
             THEN http_error(c, 400, "Unknown radio profile.", <<>>, <<>>)
             ELSE IF ref.raises
             THEN http_error(c, 400, "Voice is missing valid reference audio.", <<>>, <<>>)
             ELSE IF body.cache_mode = "full"
             THEN IF body.cache_enabled
                  THEN tts_full(c, time, body, voice, ref.ref_wav, engine_ok)
                  ELSE tts_full_uncached(c, body, voice, ref.ref_wav, engine_ok)
             ELSE tts_segment(c, time, body, voice, ref.ref_wav, engine_ok)

\* The loop over the phrases of prefetch.
RECURSIVE prefetch_phrases(_, _, _, _, _, _)
prefetch_phrases(phrases, time, voice, engine_ok, i, acc) ==
    IF i > Len(phrases) \/ acc.raised THEN acc
    ELSE LET normalized == normalize_text(phrases[i])
             ref        == resolve_ref_wav(voice)
         IN  IF ref.raises
             THEN [acc EXCEPT !.raised = TRUE, !.status = 400]
             ELSE CHOOSE rest \in
                 { prefetch_phrases(phrases, time, voice, engine_ok, i + 1,
                       [ cache |-> res.cache, raised |-> res.raised, status |-> res.status,
                         wavs |-> <<>>,
                         lookups |-> Append(acc.lookups, lookup_entry(res)),
                         synth |-> acc.synth \o synth_entries(res, normalized) ]) :
                     res \in
                         { cache_get_or_generate(acc.cache, time,
                               lookup_fields(model_version_for_voice(voice), voice.id, None, normalized),
                               synthesize_for_voice(normalized, voice, ref.ref_wav, engine_ok)) } } : TRUE

\* The answer of prefetch: one item per phrase.
prefetch_response(done) ==
    IF done.raised
    THEN http_error(done.cache, done.status, "prefetch", done.lookups, done.synth)
    ELSE [ cache |-> done.cache,
           resp |-> [NoResponse EXCEPT !.status = 200, !.mode = "prefetch",
                        !.segments = Len(done.lookups),
                        !.lookups = done.lookups, !.synth = done.synth] ]

\* prefetch(body)
prefetch(c, time, body, engine_ok) ==
    IF voices_get(body.voice_id) = {}
    THEN http_error(c, 404, "Voice not found.", <<>>, <<>>)
    ELSE IF ~body.cache_enabled
    THEN http_error(c, 400, "Cache is disabled.", <<>>, <<>>)
    ELSE IF body.radio_profile \notin {None, Empty} /\ ~validate_radio_profile(body.radio_profile)
    THEN http_error(c, 400, "Unknown radio profile.", <<>>, <<>>)
    ELSE IF get_phrases(body.phraseset) = <<>>
    THEN http_error(c, 404, "Phrase set not found or empty.", <<>>, <<>>)
    ELSE CHOOSE out \in
        { prefetch_response(done) :
            done \in
                { prefetch_phrases(get_phrases(body.phraseset), time,
                                   CHOOSE v \in voices_get(body.voice_id) : TRUE, engine_ok, 1,
                                   [cache |-> c, raised |-> FALSE, status |-> 200, wavs |-> <<>>,
                                    lookups |-> <<>>, synth |-> <<>>]) } } : TRUE

\* The request bodies served: the well-formed ones, and for each way of
\* being ill-formed one body per cache mode.
TtsVoiceIds == { <<"a">>, <<"n">>, <<"v">>, <<"z">> }
TtsProfiles == { None, <<"v", "h", "f">>, <<"b", "o", "g", "u", "s">> }
TtsTexts == { <<" ">>, <<"x">>, <<"x", "|", "y">> }

\* The pause overrides of a request: none, a negative one, one above a second.
TtsHardPauses == { NoInt, <<-5>>, <<1200>> }
TtsSoftPauses == { NoInt, <<1500>> }

\* The requests that override a pause.
paused(body) == body.hard_pause_ms # NoInt \/ body.soft_pause_ms # NoInt

defects(body) ==
    { d \in {"format", "voice", "profile", "text"} :
        \/ d = "format" /\ body.format # "wav"
        \/ d = "voice" /\ body.voice_id \in { <<"n">>, <<"z">> }
        \/ d = "profile" /\ body.radio_profile = <<"b", "o", "g", "u", "s">>
        \/ d = "text" /\ body.text = <<" ">> }

TtsBodies ==
    { body \in [ format : {"wav", "mp3"}, voice_id : TtsVoiceIds, radio_profile : TtsProfiles,
                 text : TtsTexts, cache_mode : {"full", "segment"}, cache_enabled : BOOLEAN,
                 hard_pause_ms : TtsHardPauses, soft_pause_ms : TtsSoftPauses ] :
        \/ /\ defects(body) = {}
           /\ body.voice_id = <<"v">> => body.radio_profile = None /\ body.text = <<"x">>
           /\ body.radio_profile # None => body.text = <<"x">>
           /\ paused(body) =>
                  /\ body.cache_mode = "segment" /\ body.cache_enabled
                  /\ body.voice_id = <<"a">> /\ body.radio_profile = None
                  /\ body.text = <<"x", "|", "y">>
                  /\ body.hard_pause_ms = NoInt \/ body.soft_pause_ms = NoInt
        \/ /\ Cardinality(defects(body)) = 1
           /\ ~paused(body)
           /\ body.cache_enabled
           /\ "voice" \notin defects(body) => body.voice_id = <<"a">>
           /\ "profile" \notin defects(body) => body.radio_profile = None
           /\ "text" \notin defects(body) => body.text = <<"x">> }

PrefetchBodies ==
    { body \in [ voice_id : TtsVoiceIds, radio_profile : {None, <<"b", "o", "g", "u", "s">>},
                 phraseset : {"p", "q"}, cache_enabled : BOOLEAN ] :
        Cardinality({ d \in {"voice", "profile", "phraseset", "cache"} :
                        \/ d = "voice" /\ body.voice_id \in { <<"n">>, <<"z">> }
                        \/ d = "profile" /\ body.radio_profile # None
                        \/ d = "phraseset" /\ body.phraseset = "q"
                        \/ d = "cache" /\ ~body.cache_enabled }) <= 1 }

\* POST /tts
PostTts(body, engine_ok) ==
    /\ now < MaxRequests
    /\ \E out \in { tts([db |-> db, fs |-> fs, dirs |-> dirs], now, body, engine_ok) } :
           /\ db' = out.cache.db
           /\ fs' = out.cache.fs
           /\ dirs' = out.cache.dirs
           /\ http' = [op |-> "tts", body |-> body, engine_ok |-> engine_ok, resp |-> out.resp]
    /\ now' = now + 1
    /\ UNCHANGED <<wav, seg, asr, keyIn, keyOut, last, seen, tampered, pc, loc>>

\* POST /prefetch
PostPrefetch(body, engine_ok) ==
    /\ now < MaxRequests
    /\ \E out \in { prefetch([db |-> db, fs |-> fs, dirs |-> dirs], now, body, engine_ok) } :
           /\ db' = out.cache.db
           /\ fs' = out.cache.fs
           /\ dirs' = out.cache.dirs
           /\ http' = [op |-> "prefetch", body |-> body, engine_ok |-> engine_ok, resp |-> out.resp]
    /\ now' = now + 1
    /\ UNCHANGED <<wav, seg, asr, keyIn, keyOut, last, seen, tampered, pc, loc>>

InitTts == Init

NextTts ==
    \/ \E body \in TtsBodies, engine_ok \in BOOLEAN : PostTts(body, engine_ok)
    \/ \E body \in PrefetchBodies, engine_ok \in BOOLEAN : PostPrefetch(body, engine_ok)

SpecTts == InitTts /\ [][NextTts]_vars

---------------------------------------------------------------------------
(* SpecAsr: the /transcribe handler (whisper-fast/service.py)              *)
(*                                                                         *)
(* Handler.model and Handler.model_device are class attributes shared by   *)
(* the handler threads.  main() leaves a model loaded on cuda or on cpu.   *)
(* A call of the model, a reload and the sending of a response can each    *)
(* succeed or raise.                                                       *)

\* Number of POST requests the service receives.
MaxTranscribes == 3

\* What a POST can carry up to the point where the model is called.
Payloads == {"not_found", "invalid_json", "missing_wav_path", "no_such_file", "ok"}

\* The thread moves on inside do_POST.
AsrGoto(t, l) == asr' = [asr EXCEPT !.h[t] = l]

\* do_POST up to the model call: path, JSON body, wavPath, file, model.
Receive(t, payload) ==
    /\ asr.h[t].pc = "idle" /\ asr.started < MaxTranscribes
    /\ asr' = [asr EXCEPT !.started = @ + 1,
                          !.h[t] = CASE payload = "not_found" -> [NoRequest EXCEPT !.pc = "done", !.status = 404]
                                     [] payload \in {"invalid_json", "missing_wav_path", "no_such_file"} ->
                                            [NoRequest EXCEPT !.pc = "done", !.status = 400]
                                     [] OTHER -> [NoRequest EXCEPT !.pc = "transcribe"]]
    /\ UNCHANGED <<wav, seg, http, keyIn, keyOut, db, fs, dirs, now, last, seen, tampered, pc, loc>>

\* segments, info = Handler.model.transcribe(wav_path, **options) and the
\* reading of the segments, first attempt.
Transcribe(t, raises) ==
    /\ asr.h[t].pc = "transcribe"
    /\ AsrGoto(t, [asr.h[t] EXCEPT !.attempts = @ + 1, !.first_device = asr.device,
                                   !.first_failed = raises,
                                   !.pc = IF raises THEN "except" ELSE "respond"])
    /\ UNCHANGED <<wav, seg, http, keyIn, keyOut, db, fs, dirs, now, last, seen, tampered, pc, loc>>

\* self._json(200, {...}) inside the try block: a write that raises is
\* caught by the same except clause as a failed transcription.
Respond(t, raises) ==
    /\ asr.h[t].pc = "respond"
    /\ AsrGoto(t, IF raises THEN [asr.h[t] EXCEPT !.pc = "except"]
                  ELSE [asr.h[t] EXCEPT !.pc = "done", !.status = 200])
    /\ UNCHANGED <<wav, seg, http, keyIn, keyOut, db, fs, dirs, now, last, seen, tampered, pc, loc>>

\* except Exception: if Handler.model_device == "cuda" and
\* self._load_cpu_fallback(): ... else self._json(500, ...)
Except(t, reload_ok) ==
    /\ asr.h[t].pc = "except"
    /\ IF asr.device = "cuda" /\ reload_ok
       THEN asr' = [asr EXCEPT !.device = "cpu",
                               !.h[t] = [@ EXCEPT !.reloaded = TRUE, !.pc = "retry"]]
       ELSE AsrGoto(t, [asr.h[t] EXCEPT !.pc = "done", !.status = 500])
    /\ UNCHANGED <<wav, seg, http, keyIn, keyOut, db, fs, dirs, now, last, seen, tampered, pc, loc>>

\* The retry on the CPU model and its response; a failure of either is
\* answered with 500 and the handler returns.
Retry(t, raises, send_raises) ==
    /\ asr.h[t].pc = "retry"
    /\ AsrGoto(t, [asr.h[t] EXCEPT !.attempts = @ + 1, !.second_failed = raises,
                                   !.fallback = ~raises /\ ~send_raises,
                                   !.status = IF raises \/ send_raises THEN 500 ELSE 200,
                                   !.pc = "done"])
    /\ UNCHANGED <<wav, seg, http, keyIn, keyOut, db, fs, dirs, now, last, seen, tampered, pc, loc>>

\* The handler has returned; the thread serves the next request.
Finish(t) ==
    /\ asr.h[t].pc = "done"
    /\ AsrGoto(t, NoRequest)
    /\ UNCHANGED <<wav, seg, http, keyIn, keyOut, db, fs, dirs, now, last, seen, tampered, pc, loc>>

InitAsr ==
    /\ asr \in {[NoAsr EXCEPT !.device = d] : d \in {"cuda", "cpu"}}
    /\ seg = NoSeg
    /\ http = NoHttp
    /\ wav = NoWav
    /\ keyIn = <<NoTuple, NoTuple>>
    /\ keyOut = NoKeys
    /\ EmptyCache

NextAsr ==
    \E t \in Threads :
        \/ \E payload \in Payloads : Receive(t, payload)
        \/ \E raises \in BOOLEAN : Transcribe(t, raises)
        \/ \E raises \in BOOLEAN : Respond(t, raises)
        \/ \E reload_ok \in BOOLEAN : Except(t, reload_ok)
        \/ \E raises \in BOOLEAN, send_raises \in BOOLEAN : Retry(t, raises, send_raises)
        \/ Finish(t)

SpecAsr == InitAsr /\ [][NextAsr]_vars

---------------------------------------------------------------------------
(* Properties of make_key (SpecKey)                                        *)

KeysMade == keyOut # NoKeys

\* The two tuples differ, as passed, in exactly one of the six named fields.
OneFieldChanged ==
    /\ Cardinality(DiffFields(keyIn[1], keyIn[2])) = 1
    /\ DiffFields(keyIn[1], keyIn[2]) \subseteq KeyFields

\* C6: changing any single key field (voice id, role, radio profile, speed,
\* language or normalized text) while the others stay as they are changes
\* the cache key.
C6_AnySingleChangeChangesKey ==
    (KeysMade /\ OneFieldChanged) => keyOut[1] # keyOut[2]

\* C6, amended: changing a single key field changes the cache key whenever
\* the old and the new value differ as make_key reads them, that is with
\* None and the empty string taken as the same value and speeds compared
\* at three decimals.
C6_SingleChangeChangesKey ==
    (KeysMade /\ OneFieldChanged /\ canon(keyIn[1]) # canon(keyIn[2])) => keyOut[1] # keyOut[2]

C6_Witness ==
    /\ KeysMade
    /\ DiffFields(keyIn[1], keyIn[2]) = {"language"}
    /\ keyOut[1] # keyOut[2]

\* C7: two tuples of the seven key fields (model version, voice id, role,
\* radio profile, speed at three decimals, language, normalized text) give
\* the same digest input, and so the same cache entry, if and only if all
\* seven fields are equal.
C7_PayloadInjective ==
    KeysMade => ((keyOut[1] = keyOut[2]) <=> (canon(keyIn[1]) = canon(keyIn[2])))

---------------------------------------------------------------------------
(* Properties of the cache under one caller (Spec)                         *)

\* The step just taken was a whole get_or_generate call.
GetOrGenerateStep == last'.op = "get_or_generate" /\ now' = now + 1

\* The entry get_cached would accept for a key.
Usable(d, f, key) == key \in DOMAIN d /\ d[key].path \in DOMAIN f

\* The key a blob file is named after.
blob_key(path) == path[2]

\* The earlier calls of this run of get_or_generate calls made with the
\* same seven key fields as t.
Earlier(t) == { c \in seen.calls : canon_call(c.t) = canon_call(t) }

\* C1: in a sequence of get_or_generate calls with no clear and no external
\* deletion in between, the first call made with a key-field tuple returns
\* from_cache = false after one generator call, and every later call with
\* that tuple returns from_cache = true with no generator call and the
\* same audio.
C1_GeneratedAtMostOnce ==
    [][ (GetOrGenerateStep /\ seen.pure /\ ~last'.raised) =>
          IF Earlier(last'.args) = {}
          THEN ~last'.from_cache /\ last'.gen_calls = 1
          ELSE /\ last'.from_cache
               /\ last'.gen_calls = 0
               /\ \A c \in Earlier(last'.args) : last'.has_audio => last'.audio = c.audio
      ]_vars

\* C2: after any sequence of completed get_or_generate, store_audio and
\* clear calls, raising generators included, a row exists for a key exactly
\* when the blob file at that row's path exists: every row has its file,
\* and no file is named after a key that has no row.
C2_RecordIffBlob ==
    ~tampered =>
        /\ \A k \in DOMAIN db : db[k].path \in DOMAIN fs
        /\ \A p \in DOMAIN fs : blob_key(p) \in DOMAIN db

C2_Witness ==
    /\ ~tampered
    /\ last.op = "get_or_generate" /\ last.raised
    /\ DOMAIN db # {}
    /\ \A k \in DOMAIN db : db[k].path \in DOMAIN fs

\* A row without its file, or a file named after a key without a row.
Inconsistent(d, f, key) ==
    \/ key \in DOMAIN d /\ d[key].path \notin DOMAIN f
    \/ key \notin DOMAIN d /\ \E p \in DOMAIN f : blob_key(p) = key

\* C3: when a row has lost its blob, or a blob its row, the next
\* get_or_generate for that key whose generator returns is served as a
\* miss without an error (one generator call, from_cache = false) and
\* leaves both the row and its blob in place.
C3_SelfHealing ==
    [][ (GetOrGenerateStep /\ Inconsistent(db, fs, last'.key) /\ ~last'.gen.raises) =>
          /\ ~last'.raised
          /\ ~last'.from_cache
          /\ last'.gen_calls = 1
          /\ Usable(db', fs', last'.key)
      ]_vars

C3_Witness ==
    /\ tampered
    /\ last.op = "get_or_generate" /\ ~last.from_cache /\ ~last.raised
    /\ now = 3
    /\ Cardinality(DOMAIN db) = 1 /\ Cardinality(DOMAIN fs) = 1
    /\ Usable(db, fs, last.key)

\* C4: a get_or_generate that finds a row whose blob is present returns the
\* stored bytes with from_cache = true, adds exactly 1 to that row's stored
\* hit counter, sets its last-hit time, changes no other row and no blob,
\* and does not call the generator.
C4_HitPath ==
    [][ (GetOrGenerateStep /\ Usable(db, fs, last'.key)) =>
          LET k == last'.key IN
          /\ last'.from_cache /\ ~last'.raised
          /\ last'.gen_calls = 0
          /\ last'.return_audio => (last'.has_audio /\ last'.audio = fs[db[k].path])
          /\ DOMAIN db' = DOMAIN db
          /\ db'[k] = [db[k] EXCEPT !.hit_count = db[k].hit_count + 1, !.last_hit = <<now>>]
          /\ \A j \in DOMAIN db \ {k} : db'[j] = db[j]
          /\ fs' = fs
      ]_vars

C4_Witness ==
    /\ last.op = "get_or_generate" /\ last.from_cache /\ last.has_audio
    /\ Cardinality(DOMAIN db) > 1
    /\ db[last.key].hit_count = 1
    /\ db[last.key].last_hit = <<now - 1>>

\* C5: a get_or_generate that finds no usable entry calls the generator
\* exactly once, writes exactly the returned bytes as the blob at the
\* sharded path for the key, stores a row with hit count 0, no last-hit
\* time and the length of those bytes, and returns those bytes with
\* from_cache = false.
C5_MissPath ==
    [][ (GetOrGenerateStep /\ ~Usable(db, fs, last'.key)) =>
          LET k == last'.key
              p == <<last'.args.voice_id, k>>
          IN
          /\ last'.gen_calls = 1
          /\ ~last'.gen.raises =>
               /\ ~last'.raised /\ ~last'.from_cache
               /\ DOMAIN fs' = DOMAIN fs \cup {p}
               /\ fs'[p] = last'.gen.data
               /\ \A q \in DOMAIN fs \ {p} : fs'[q] = fs[q]
               /\ DOMAIN db' = DOMAIN db \cup {k}
               /\ db'[k].path = p
               /\ db'[k].hit_count = 0
               /\ db'[k].last_hit = NULL
               /\ db'[k].bytes = Len(last'.gen.data)
               /\ \A j \in DOMAIN db \ {k} : db'[j] = db[j]
               /\ last'.return_audio => (last'.has_audio /\ last'.audio = last'.gen.data)
      ]_vars

C5_Witness ==
    /\ last.op = "get_or_generate" /\ ~last.from_cache /\ ~last.raised
    /\ last.has_audio /\ last.audio = <<2, 2>>
    /\ db[last.key].bytes = 2 /\ db[last.key].hit_count = 0
    /\ fs[db[last.key].path] = <<2, 2>>
    /\ Cardinality(DOMAIN db) > 1

\* u is t with whitespace added only in front, at the end, or next to
\* whitespace already there.
RECURSIVE padded(_, _, _)
padded(t, u, gap) ==
    IF u = <<>> THEN t = <<>>
    ELSE \/ t # <<>> /\ Head(t) = Head(u) /\ padded(Tail(t), Tail(u), Head(u) \in Whitespace)
         \/ Head(u) \in Whitespace /\ (gap \/ t = <<>>) /\ padded(t, Tail(u), TRUE)

\* Two raw texts that differ only in leading, trailing or repeated
\* internal whitespace.
SameButWhitespace(t, u) == t # u /\ (padded(t, u, TRUE) \/ padded(u, t, TRUE))

\* C8: get_or_generate normalizes the text before hashing: a call whose
\* text differs from an earlier call's only in leading, trailing or
\* repeated internal whitespace, the other fields being equal, resolves to
\* the earlier call's key and is a hit.
C8_WhitespaceVariantHits ==
    [][ (GetOrGenerateStep /\ seen.pure /\ ~last'.raised) =>
          \A c \in seen.calls :
              ( /\ [c.t EXCEPT !.text = <<>>] = [last'.args EXCEPT !.text = <<>>]
                /\ SameButWhitespace(c.t.text, last'.args.text) )
              => (last'.key = c.key /\ last'.from_cache)
      ]_vars

C8_Witness ==
    /\ seen.pure
    /\ last.op = "get_or_generate" /\ last.from_cache
    /\ last.args.text = <<" ", "x", " ", " ", "y", " ">>
    /\ \E c \in seen.calls :
          /\ c.t.text = <<"x", " ", "y">>
          /\ [c.t EXCEPT !.text = <<>>] = [last.args EXCEPT !.text = <<>>]
    /\ \A c \in seen.calls : [c.t EXCEPT !.text = <<>>] = [last.args EXCEPT !.text = <<>>]
    /\ db[last.key].hit_count = 1

\* C9: store_audio persists as the miss path does: the get_or_generate
\* call that follows store_audio(fields, bytes) with the same seven key
\* fields is a hit that returns exactly the stored bytes and does not call
\* its generator.
C9_StoreThenHit ==
    [][ ( /\ GetOrGenerateStep
          /\ last.op = "store_audio"
          /\ canon_call(last'.args) = canon(last.args) ) =>
          /\ last'.from_cache /\ ~last'.raised
          /\ last'.gen_calls = 0
          /\ last'.return_audio => (last'.has_audio /\ last'.audio = last.audio)
      ]_vars

C9_Witness ==
    /\ last.op = "get_or_generate" /\ last.from_cache /\ last.has_audio
    /\ now = 3
    /\ ~seen.pure /\ ~tampered
    /\ Cardinality(seen.calls) = 2
    /\ \E c \in seen.calls : c.audio # last.audio /\ c.key = last.key
    /\ db[last.key].hit_count = 1

---------------------------------------------------------------------------
(* Properties of the cache under several callers (SpecConc)                *)

Quiescent == \A p \in Procs : pc[p] = "idle"

\* Every row has its blob and every blob is the blob of its key's row.
RowsMatchBlobs ==
    /\ \A k \in DOMAIN db : db[k].path \in DOMAIN fs
    /\ \A f \in DOMAIN fs : blob_key(f) \in DOMAIN db /\ db[blob_key(f)].path = f

\* C10: clear removes all blobs and all rows atomically as callers see it:
\* no call interleaved with a clear finds a row whose blob that clear has
\* already removed, and once clear and the calls interleaved with it have
\* finished every remaining row has its blob and every remaining blob has
\* its row.
C10_ClearAtomic ==
    /\ \A p \in Procs : ~loc[p].torn
    /\ Quiescent => RowsMatchBlobs

\* Both callers have returned from a get_or_generate miss for one key, and
\* no other call was made: the two calls overlapped.
BothMissed ==
    /\ Quiescent /\ now = 2
    /\ \A p \in Procs : /\ loc[p].call.op = "get_or_generate"
                         /\ ~loc[p].call.from_cache /\ ~loc[p].call.raised
                         /\ loc[p].call.gen_calls = 1
    /\ loc[1].call.key = loc[2].call.key

\* C11: when two get_or_generate calls for one key overlap and both miss,
\* both may call their generators, and once both have returned the later
\* write has won as a whole: the key has exactly one row, the blob is the
\* complete output of one of the two generators, and the row's byte length
\* is the length of that blob.
C11_LaterWriteWins ==
    BothMissed =>
        LET k == loc[1].call.key IN
        /\ k \in DOMAIN db
        /\ db[k].path \in DOMAIN fs
        /\ fs[db[k].path] \in {loc[1].call.gen.data, loc[2].call.gen.data}
        /\ db[k].bytes = Len(fs[db[k].path])

\* C12: a get_or_generate or store_audio call that is abandoned between
\* its steps, or is still under way, does not corrupt the cache: every hit
\* returned to any caller carries the complete bytes of some finished
\* generator or store output, never a truncated or partly written blob.
C12_HitsAreComplete ==
    \A p \in Procs :
        (loc[p].call.op = "get_or_generate" /\ loc[p].call.from_cache /\ loc[p].call.has_audio)
            => loc[p].call.audio \in Audio

---------------------------------------------------------------------------
(* Properties of segment_text (SpecSeg)                                    *)

\* The text contains one of the given characters.
Contains(text, chars) == \E i \in 1..Len(text) : text[i] \in chars

\* The maximal runs of characters of the text that are not delimiters,
\* each with its whitespace normalized, the blank ones dropped.
ChunksBetween(text, delimiters) ==
    LET first == sorted({i \in 1..Len(text) :
                     text[i] \notin delimiters /\ (i = 1 \/ text[i - 1] \in delimiters)})
        final == sorted({i \in 1..Len(text) :
                     text[i] \notin delimiters /\ (i = Len(text) \/ text[i + 1] \in delimiters)})
    IN  nonempty([n \in 1..Len(first) |-> normalize_text(SubSeq(text, first[n], final[n]))])

\* The pieces of the text that end with one of . ? ! ; or with the text,
\* each with its whitespace normalized, the blank ones dropped.
ChunksEndingAt(text, enders) ==
    LET first == sorted({i \in 1..Len(text) : i = 1 \/ text[i - 1] \in enders})
        final == sorted({i \in 1..Len(text) : i = Len(text) \/ text[i] \in enders})
    IN  nonempty([n \in 1..Len(first) |-> normalize_text(SubSeq(text, first[n], final[n]))])

\* What "a newline" can be read as: a line feed, or a line feed or a
\* carriage return.
NewlineReadings == { {"\n"}, {"\n", "\r"} }

\* The delimiter mode by strict priority, for one reading of newline.
PriorityMode(text, newlines) ==
    IF Contains(text, {"|"}) THEN "pipe"
    ELSE IF Contains(text, newlines) THEN "newline"
    ELSE IF Contains(text, PUNCT_BREAKS) THEN "punct"
    ELSE "none"

\* The chunks the mode cuts the text into.
PriorityChunks(text, newlines) ==
    CASE PriorityMode(text, newlines) = "pipe"    -> ChunksBetween(text, {"|"})
      [] PriorityMode(text, newlines) = "newline" -> ChunksBetween(text, newlines)
      [] OTHER                                    -> ChunksEndingAt(text, PUNCT_BREAKS)

\* No character run between two delimiters is long enough to be wrapped.
ShortText(text) == Len(text) <= 220

\* C18: segment_text selects the delimiter mode by strict priority: pipe
\* if the text contains a pipe, splitting on pipes only ("a | b | c" gives
\* exactly 3 segments); else newline if it contains a newline, splitting
\* on newline runs; else punct if it contains any of . ? ! ; splitting
\* after each such character, which stays with the chunk before it; else
\* none.  A text is held against whichever reading of newline suits it,
\* and its segments are compared when no chunk is long enough to be wrapped.
C18_DelimiterPriority ==
    seg.done =>
        \E newlines \in NewlineReadings :
            /\ seg.result.delimiter = PriorityMode(seg.text, newlines)
            /\ ShortText(seg.text) => seg.result.segments = PriorityChunks(seg.text, newlines)

\* The text has none of the characters segment_text cuts at.
NoDelimiters(text) == ~Contains(text, {"|", "\n"} \cup PUNCT_BREAKS)

\* One segment, mode none, no pauses.
OneSegment(result) ==
    /\ Len(result.segments) = 1
    /\ result.delimiter = "none"
    /\ result.pauses_ms = <<>> /\ result.boundary_types = <<>>

\* C19: for every text that contains no pipe, no newline and none of the
\* characters . ? ! ; segment_text returns exactly one segment with
\* delimiter mode none and no pauses.
C19_NoDelimiterOneSegment ==
    (seg.done /\ NoDelimiters(seg.text)) => OneSegment(seg.result)

\* C19, amended: for every text that contains no pipe, no line feed, no
\* carriage return and none of . ? ! ; and that is, once its whitespace is
\* normalized, neither empty nor longer than 220 characters, segment_text
\* returns exactly one segment, the normalized text, with delimiter mode
\* none and no pauses.
C19_ShortPlainTextOneSegment ==
    ( /\ seg.done
      /\ NoDelimiters(seg.text) /\ ~Contains(seg.text, {"\r"})
      /\ normalize_segment_text(seg.text) # <<>>
      /\ Len(normalize_segment_text(seg.text)) <= 220 )
    => (OneSegment(seg.result) /\ seg.result.segments[1] = normalize_segment_text(seg.text))

C19_Witness ==
    /\ seg.done
    /\ seg.text = <<" ", "a", " ", "a">>
    /\ seg.result.segments = << <<"a", " ", "a">> >>
    /\ seg.result.delimiter = "none"

\* C20: for every text, no segment segment_text returns is longer than 220
\* characters, and every chunk cut at a delimiter that is longer than 220
\* characters is split into at least 2 sub-chunks.
C20_NoSegmentOver220 ==
    seg.done =>
        /\ \A n \in 1..Len(seg.result.segments) : Len(seg.result.segments[n]) <= 220
        /\ \A c \in {segment_base(seg.text).base[n] : n \in 1..Len(segment_base(seg.text).base)} :
              Len(c) > 220 => Len(split_long_segment(c, 220, 160)) >= 2

---------------------------------------------------------------------------
(* Properties of the /transcribe handler (SpecAsr)                         *)

\* C16: while one /transcribe request is handled the transcription model
\* is called at most twice: a second call, the CPU fallback, is made only
\* if the first call failed while the model device was cuda and the CPU
\* reload succeeded, and if the second call fails an error response is
\* returned and no further call is made.
C16_AtMostOneRetry ==
    \A t \in Threads :
        LET r == asr.h[t] IN
        /\ r.attempts <= 2
        /\ r.attempts = 2 => (r.first_failed /\ r.first_device = "cuda" /\ r.reloaded)
        /\ (r.second_failed /\ r.pc = "done") => (r.status = 500 /\ r.attempts = 2)

---------------------------------------------------------------------------
(* Properties of the /tts and /prefetch handlers (SpecTts)                 *)

\* The last request was a /tts request served with caching enabled.
CachedTts == http.op = "tts" /\ http.body.cache_enabled

\* The lookups of the last request that missed, and those among them that
\* looked for a clean render.
Misses == {i \in 1..Len(http.resp.lookups) : ~http.resp.lookups[i].from_cache}
CleanMisses == {i \in Misses : http.resp.lookups[i].clean}

\* C13 as stated: with caching enabled, the number of synthesis calls made
\* by a /tts request equals the number of its cache lookups that missed.
C13_SynthesisPerMiss ==
    CachedTts => Len(http.resp.synth) = Cardinality(Misses)

\* C13: with caching enabled, a /tts request calls the synthesis engine only
\* inside the miss path of a lookup for a clean render: the number of its
\* synthesis calls equals the number of its clean-render lookups that
\* missed, each call is for the key of such a lookup, a lookup for a
\* processed (radio) render never calls the engine, and a request whose
\* lookups all hit makes no synthesis call.
C13_SynthesisPerCleanMiss ==
    CachedTts =>
        /\ Len(http.resp.synth) = Cardinality(CleanMisses)
        /\ \A i \in 1..Len(http.resp.synth) :
              \E j \in CleanMisses : http.resp.lookups[j].key = http.resp.synth[i].key
        /\ Misses = {} => http.resp.synth = <<>>

\* A request with two lookups, the first a hit and the second a miss of a
\* clean render, has made one synthesis call.
C13_Witness ==
    /\ CachedTts
    /\ http.resp.status = 200
    /\ Len(http.resp.lookups) = 2
    /\ http.resp.lookups[1].from_cache
    /\ CleanMisses = {2}
    /\ Len(http.resp.synth) = 1

\* The inputs a request is rejected for: a format other than wav, a voice
\* that is not in the store or an xtts voice without reference audio, a
\* radio profile that is not in RADIO_PROFILES, and for /tts a text that is
\* empty after normalization (full mode) or segmentation (segment mode).
InvalidVoice(voice_id) ==
    \/ voices_get(voice_id) = {}
    \/ \E v \in voices_get(voice_id) : v.engine = "xtts" /\ ~v.reference

InvalidProfile(radio_profile) ==
    radio_profile \notin {None, Empty} /\ radio_profile \notin RADIO_PROFILES

InvalidInput(op, body) ==
    \/ InvalidVoice(body.voice_id)
    \/ InvalidProfile(body.radio_profile)
    \/ /\ op = "tts"
       /\ \/ body.format # "wav"
          \/ body.cache_mode = "full" /\ normalize_text(body.text) = Empty
          \/ body.cache_mode = "segment" /\ segment_text(body.text, <<70>>, <<35>>).segments = <<>>

\* C14: a /tts or /prefetch request with invalid input is answered with a
\* client error (4xx), no synthesis call and no cache lookup is made for
\* it, and the cache records and blobs are as they were before the request.
C14_InvalidInputRejected ==
    [][ (now' = now + 1 /\ http'.op \in {"tts", "prefetch"} /\ InvalidInput(http'.op, http'.body))
        => /\ http'.resp.status \in 400..499
           /\ http'.resp.synth = <<>>
           /\ http'.resp.lookups = <<>>
           /\ db' = db
           /\ fs' = fs ]_vars

\* A /tts request for a voice without reference audio was rejected with 400
\* while the cache held entries.
C14_Witness ==
    /\ http.op = "tts"
    /\ http.body.voice_id = <<"n">>
    /\ InvalidInput("tts", http.body)
    /\ http.resp.status = 400
    /\ http.resp.synth = <<>>
    /\ DOMAIN db # {}

\* The synthesis calls of a response during which the engine failed.
FailedCalls(resp) == {i \in 1..Len(resp.synth) : resp.synth[i].failed}

\* C15: when the synthesis engine fails for a chunk of a /tts request, the
\* request is answered with a server error and not with audio, and the
\* cache gets no record and no blob for the key of the failed chunk.
C15_FailureSurfaced ==
    [][ (now' = now + 1 /\ http'.op = "tts" /\ FailedCalls(http'.resp) # {})
        => /\ http'.resp.status >= 500
           /\ http'.resp.body = <<>>
           /\ \A i \in FailedCalls(http'.resp) :
                 LET key  == http'.resp.synth[i].key
                     path == sharded_path(http'.body.voice_id, key)
                 IN  key # hash_key(Empty) =>
                        /\ key \in DOMAIN db' => key \in DOMAIN db /\ db'[key] = db[key]
                        /\ path \in DOMAIN fs' => path \in DOMAIN fs /\ fs'[path] = fs[path] ]_vars

\* The lookups of the last request that were served from the cache.
Hits == {i \in 1..Len(http.resp.lookups) : http.resp.lookups[i].from_cache}

\* C17: a /tts response names the mode used in its cache-mode header
\* (disabled when caching is off, else full or segment), and in segment
\* mode with caching enabled it reports the number N of segments of the
\* text and the number H of them served from the cache, 0 <= H <= N, with
\* cache status HIT exactly when H = N, MISS exactly when H = 0 and MIXED
\* otherwise.
C17_CacheHeaders ==
    (http.op = "tts" /\ http.resp.status = 200) =>
        /\ http.resp.mode = IF http.body.cache_enabled THEN http.body.cache_mode ELSE "disabled"
        /\ http.resp.mode \in {"full", "segment", "disabled"}
        /\ (http.body.cache_mode = "segment" /\ http.body.cache_enabled) =>
              LET N == Len(segment_text(http.body.text, <<70>>, <<35>>).segments)
                  H == Cardinality(Hits)
              IN  /\ http.resp.segments = N
                  /\ Len(http.resp.lookups) = N
                  /\ http.resp.hits = H
                  /\ 0 <= H /\ H <= N
                  /\ http.resp.cache = "HIT" <=> H = N
                  /\ http.resp.cache = "MISS" <=> H = 0
                  /\ http.resp.cache = "MIXED" <=> (0 < H /\ H < N)

\* A segment-mode response for two segments of which one was cached.
C17_Witness ==
    /\ http.op = "tts"
    /\ http.resp.status = 200
    /\ http.resp.mode = "segment"
    /\ http.resp.segments = 2
    /\ http.resp.hits = 1
    /\ http.resp.cache = "MIXED"

---------------------------------------------------------------------------
(* Properties of segment_text: boundaries, segment text, text kept         *)

\* The number of sub-chunks of each delimiter-level chunk of the text, and
\* the positions among the segments at which a chunk's first sub-chunk
\* stands.
SubCounts(text) ==
    LET base == segment_base(text).base
    IN  [n \in 1..Len(base) |-> Len(split_long_segment(base[n], 220, 160))]

RECURSIVE SumTo(_, _)
SumTo(counts, n) == IF n = 0 THEN 0 ELSE counts[n] + SumTo(counts, n - 1)

ChunkStarts(text) ==
    LET counts == SubCounts(text)
    IN  {SumTo(counts, n - 1) + 1 : n \in {m \in 1..Len(counts) : counts[m] > 0}}

\* The pause values of a call: the hard one and the soft one.
HardPause(s) == clamp_pause(s.base_pause_ms, 70)
SoftPause(s) == clamp_pause(s.wrap_pause_ms, 35)

\* C26: segment_text returns max(0, N-1) pauses and boundary types for N
\* segments; the entry before a non-first segment is hard, with the hard
\* pause value, exactly when the mode is pipe or newline and the segment is
\* the first sub-chunk of its delimiter-level chunk, and otherwise soft
\* with the soft pause value.
C26_BoundaryBeforeSegment ==
    seg.done =>
        LET r == seg.result
            N == Len(r.segments)
            starts == ChunkStarts(seg.text)
        IN  /\ Len(r.pauses_ms) = (IF N = 0 THEN 0 ELSE N - 1)
            /\ Len(r.boundary_types) = (IF N = 0 THEN 0 ELSE N - 1)
            /\ \A n \in 2..N :
                  IF r.delimiter \in {"pipe", "newline"} /\ n \in starts
                  THEN r.boundary_types[n - 1] = "hard" /\ r.pauses_ms[n - 1] = HardPause(seg)
                  ELSE r.boundary_types[n - 1] = "soft" /\ r.pauses_ms[n - 1] = SoftPause(seg)

\* A pipe-mode text whose first chunk is wrapped into two sub-chunks: a soft
\* boundary inside the chunk, a hard one before the next chunk.
C26_Witness ==
    /\ seg.done
    /\ seg.result.delimiter = "pipe"
    /\ seg.result.boundary_types = <<"soft", "hard">>
    /\ seg.result.pauses_ms[1] # seg.result.pauses_ms[2]

\* C27: every segment segment_text returns is non-empty, neither starts nor
\* ends with whitespace, has no two whitespace characters in a row, and
\* contains no delimiter of the mode selected: no pipe in pipe mode, no
\* line feed and no carriage return in newline mode.
C27_SegmentsClean ==
    seg.done =>
        \A n \in 1..Len(seg.result.segments) :
            LET s == seg.result.segments[n]
            IN  /\ s # <<>>
                /\ s[1] \notin Whitespace
                /\ s[Len(s)] \notin Whitespace
                /\ \A i \in 1..(Len(s) - 1) : ~(s[i] \in Whitespace /\ s[i + 1] \in Whitespace)
                /\ seg.result.delimiter = "pipe" => ~Contains(s, {"|"})
                /\ seg.result.delimiter = "newline" => ~Contains(s, {"\n", "\r"})

\* A newline-mode text whose carriage return and spaces between two words
\* come back as one space.
C27_Witness ==
    /\ seg.done
    /\ seg.text = <<"a", "\r", " ", "a">>
    /\ seg.result.delimiter = "newline"
    /\ seg.result.segments = << <<"a", " ", "a">> >>

\* The characters of a text that are not in drop, in order.
Without(text, drop) == SelectSeq(text, LAMBDA ch : ch \notin drop)

\* C28: the segments in order, with all whitespace deleted, read as the
\* input with all whitespace deleted and, in pipe mode, all pipes deleted.
C28_NoTextLost ==
    seg.done =>
        Without(join(Empty, seg.result.segments), Whitespace)
            = Without(seg.text, Whitespace \cup (IF seg.result.delimiter = "pipe" THEN {"|"} ELSE {}))

\* A pipe-mode text with a word longer than the wrap length, which comes
\* back cut into a slice of the full length and the rest.
C28_Witness ==
    /\ seg.done
    /\ seg.result.delimiter = "pipe"
    /\ Len(seg.result.segments) >= 3
    /\ \E n \in 1..(Len(seg.result.segments) - 1) :
          /\ seg.result.segments[n] = rep("c", 220)
          /\ seg.result.segments[n + 1] = <<"c">>

---------------------------------------------------------------------------
(* Properties of the hit counter (Spec)                                    *)

\* C29: the persisted hit counter of a record counts the get_or_generate
\* calls that returned from_cache = true for its key since the record was
\* last written: a hit adds one to the counter of its key and reports the
\* new persisted value, a miss, a regeneration after a lost blob and
\* store_audio write the record of their key with counter 0, and no call
\* changes the counter of another key's record.
C29_HitCounter ==
    [][ now' = now + 1 =>
          \A k \in DOMAIN db' :
              IF last'.op = "get_or_generate" /\ last'.key = k /\ last'.from_cache
              THEN /\ k \in DOMAIN db
                   /\ db'[k].hit_count = db[k].hit_count + 1
                   /\ last'.hit_count = db'[k].hit_count
              ELSE IF last'.op \in {"get_or_generate", "store_audio"} /\ last'.key = k /\ ~last'.raised
              THEN db'[k].hit_count = 0
              ELSE k \in DOMAIN db /\ db'[k].hit_count = db[k].hit_count
      ]_vars

\* A second hit in a row: the call reports 2 and the record holds 2.
C29_Witness ==
    /\ last.op = "get_or_generate"
    /\ last.from_cache
    /\ last.hit_count = 2
    /\ last.key \in DOMAIN db
    /\ db[last.key].hit_count = 2

---------------------------------------------------------------------------
(* Properties of the derived (radio-processed) entries (SpecTts)           *)

\* The row of a record without its hit statistics.
Unhit(row) == [row EXCEPT !.hit_count = 0, !.last_hit = NULL]

\* The key that make_key gives for the fields stored in a row.
RowKey(row) ==
    make_key(row.model_version, row.voice_id, row.role, row.radio_profile,
             row.speed, row.language, row.text_norm)

---------------------------------------------------------------------------
(* Properties of /tts with caching disabled (SpecTts)                      *)

\* C30: a /tts request handled with caching disabled makes no cache lookup
\* and no cache write: the records with their hit counters and last-hit
\* times, the blobs and the shard directories are what they were, and the
\* answer reports the cache mode "disabled".
C30_DisabledLeavesCache ==
    [][ (now' = now + 1 /\ http'.op = "tts" /\ ~http'.body.cache_enabled) =>
          /\ db' = db
          /\ fs' = fs
          /\ dirs' = dirs
          /\ http'.resp.lookups = <<>>
          /\ http'.resp.status = 200 =>
                 /\ http'.resp.mode = "disabled"
                 /\ http'.resp.cache = "OFF"
                 /\ http'.resp.hits = 0
      ]_vars

\* A request with caching disabled was answered from a fresh synthesis
\* while the cache held a usable clean render of the same voice and text,
\* which was not counted as hit.
C30_Witness ==
    /\ http.op = "tts"
    /\ ~http.body.cache_enabled
    /\ http.resp.status = 200
    /\ http.resp.mode = "disabled"
    /\ http.resp.synth # <<>>
    /\ \E k \in DOMAIN db :
           /\ db[k].voice_id = http.body.voice_id
           /\ db[k].text_norm = http.resp.synth[1].text
           /\ db[k].radio_profile = None
           /\ db[k].hit_count = 0
           /\ db[k].path \in DOMAIN fs

---------------------------------------------------------------------------
(* Properties of the pauses of /tts in segment mode (SpecTts)              *)

\* The length in ms of the silence stitch_wavs puts at a junction for a
\* pause of p ms: max(0, int(sample_rate * (p / 1000.0))) frames.
PausePlaced(p) == IF p > 0 THEN p ELSE 0

\* A pause clamped to [0, 1000] ms.
Clamped(p) == IF p < 0 THEN 0 ELSE IF p > 1000 THEN 1000 ELSE p

\* A /tts request in segment mode that was answered with audio.
SegmentModeAnswer ==
    http.op = "tts" /\ http.body.cache_mode = "segment" /\ http.resp.status = 200

\* C21: in a segment-mode /tts request every pause put between chunks by
\* the stitcher is the caller's hard or soft pause override (70 ms hard and
\* 35 ms soft when there is none) clamped to [0, 1000] ms.
C21_StitchedPausesClamped ==
    SegmentModeAnswer =>
        LET bt == segment_text(http.body.text, <<hard_pause(http.body)>>,
                               <<soft_pause(http.body)>>).boundary_types
        IN  /\ Len(http.resp.pauses) = Len(bt)
            /\ \A i \in 1..Len(bt) :
                   PausePlaced(http.resp.pauses[i]) =
                       Clamped(IF bt[i] = "hard" THEN hard_pause(http.body)
                                                 ELSE soft_pause(http.body))

---------------------------------------------------------------------------
(* Float arithmetic of the audio code                                      *)
(*                                                                         *)
(* Python floats are IEEE 754 doubles.  The audio code turns durations and *)
(* fades into frame counts and sample values with int(n * (a / b)): the    *)
(* quotient is rounded to 53 bits, the product is rounded again, and int   *)
(* truncates.  The result is computed here on integers.                    *)

\* 2^k mod m
RECURSIVE pow2mod(_, _)
pow2mod(k, m) == IF k = 0 THEN 1 % m ELSE (2 * pow2mod(k - 1, m)) % m

\* (a * x) mod m, by doubling, so that no product is formed.
RECURSIVE mulmod(_, _, _)
mulmod(a, x, m) ==
    IF x = 0 THEN 0
    ELSE LET half == mulmod(a, x \div 2, m)
         IN  (2 * half + (x % 2) * (a % m)) % m

\* The largest j with 2^j <= q, for q >= 1.
RECURSIVE ilog2(_)
ilog2(q) == IF q < 2 THEN 0 ELSE 1 + ilog2(q \div 2)

\* The least c >= 0 with a * 2^c >= b, and the least h >= 0 with
\* a < 2 * b * 2^h: they place the 53-bit significand of a / b.
RECURSIVE shift_up(_, _, _)
shift_up(a, b, c) == IF a * 2^c >= b THEN c ELSE shift_up(a, b, c + 1)

RECURSIVE shift_down(_, _, _)
shift_down(a, b, h) == IF a < 2 * b * 2^h THEN h ELSE shift_down(a, b, h + 1)

\* lhs <= b * 2^t, without forming the product.
le_scaled(lhs, b, t) ==
    IF t >= 31 THEN TRUE
    ELSE IF t >= 0 THEN (lhs + b - 1) \div b <= 2^t
    ELSE lhs * 2^(0 - t) <= b

\* The double n * (a / float(b)) for n >= 0, a >= 0, b > 0: its integer
\* part and whether it is an integer.  With k the exponent that makes
\* a * 2^k / b a 53-bit integer, the rounded quotient is off by
\* s / (b * 2^k).  The product leaves the integer q = n * a / b only if q
\* is an integer, the quotient was rounded (s # 0) and the product's
\* distance n * s / (b * 2^k) from q is more than half a unit in the last
\* place of the doubles on that side of q.
scale_float(n, a, b) ==
    IF n = 0 \/ a = 0 THEN [int |-> 0, whole |-> TRUE]
    ELSE LET k    == IF a < 2 * b THEN 52 + shift_up(a, b, 0) ELSE 52 - shift_down(a, b, 0)
             r    == mulmod(a, pow2mod(k, b), b)
             odd  == (mulmod(a, pow2mod(k, 2 * b), 2 * b) - r) \div b
             s2   == IF 2 * r < b THEN 2 * r
                     ELSE IF 2 * r > b THEN 2 * r - 2 * b
                     ELSE IF odd = 1 THEN 0 - b ELSE b
             q    == (n * a) \div b
             j    == ilog2(q)
             t    == k + j - 52
         IN  IF (n * a) % b # 0 THEN [int |-> q, whole |-> FALSE]
             ELSE IF s2 = 0 THEN [int |-> q, whole |-> TRUE]
             ELSE IF s2 > 0
             THEN (IF le_scaled(n * s2 * (IF q = 2^j THEN 2 ELSE 1), b, t)
                   THEN [int |-> q, whole |-> TRUE]
                   ELSE [int |-> q - 1, whole |-> FALSE])
             ELSE [int |-> q, whole |-> le_scaled(n * (0 - s2), b, t)]

\* int(n * (a / float(b))) for n >= 0, a >= 0, b > 0.
scale_int(n, a, b) == scale_float(n, a, b).int

\* int(round(n * (a / b))): round takes the nearest integer and, of two
\* that are equally near, the even one.
round_int(n, a, b) ==
    LET twice == scale_float(2 * n, a, b)
        half  == (twice.int - 1) \div 2
    IN  IF twice.int % 2 = 1 /\ twice.whole
        THEN (IF half % 2 = 0 THEN half ELSE half + 1)
        ELSE (twice.int + 1) \div 2

\* int(sample * scale) for a sample of either sign: int cuts towards zero.
scale_sample(sample, a, b) ==
    IF sample >= 0 THEN scale_int(sample, a, b) ELSE 0 - scale_int(0 - sample, a, b)

min(a, b) == IF a < b THEN a ELSE b

max(a, b) == IF a > b THEN a ELSE b

---------------------------------------------------------------------------
(* SpecStitch: stitch_wavs (xtts_service/audio_edit.py)                    *)
(*                                                                         *)
(* The chunks are mono 16-bit WAVs at the target sample rate, for which    *)
(* wav_to_pcm16_mono returns the frames as they are: a chunk is the        *)
(* sequence of its samples.                                                *)

\* Number of chunks handed to stitch_wavs.
MaxChunks == 3

\* max(0, int(int(sample_rate) * (int(ms) / 1000.0))): pause_frames and
\* crossfade_frames.
ms_frames(sample_rate, ms) == IF ms <= 0 THEN 0 ELSE scale_int(sample_rate, ms, 1000)

\* _apply_fade_out(samples, frames)
apply_fade_out(samples, frames) ==
    IF frames <= 0 THEN samples
    ELSE LET f     == min(frames, Len(samples))
             first == Len(samples) - f
         IN  [i \in 1..Len(samples) |->
                 IF i > first THEN scale_sample(samples[i], f - (i - first - 1), f)
                 ELSE samples[i]]

\* _apply_fade_in(samples, frames)
apply_fade_in(samples, frames) ==
    IF frames <= 0 THEN samples
    ELSE LET f == min(frames, Len(samples))
         IN  [i \in 1..Len(samples) |->
                 IF i <= f THEN scale_sample(samples[i], i, f) ELSE samples[i]]

\* n zero-valued samples: [0] * n
silence(n) == [i \in 1..n |-> 0]

\* The crossfade of a junction without pause: the last overlap samples of
\* the stream are mixed with the first of the next chunk.  The weights
\* (i + 1) / overlap are exact doubles for the overlaps of one and two
\* samples that the chunks of StitchChunks give.
crossfade(stitched, next_pcm, crossfade_frames) ==
    LET overlap == min(crossfade_frames, min(Len(stitched), Len(next_pcm)))
        keep    == Len(stitched) - overlap
        weigh(i) == stitched[keep + i] * (overlap - i) + next_pcm[i] * i
        mixed   == [i \in 1..overlap |->
                       IF weigh(i) >= 0 THEN weigh(i) \div overlap
                       ELSE 0 - ((0 - weigh(i)) \div overlap)]
    IN  IF overlap > 0
        THEN SubSeq(stitched, 1, keep) \o mixed \o SubSeq(next_pcm, overlap + 1, Len(next_pcm))
        ELSE stitched \o next_pcm

\* The loop of stitch_wavs over the junctions, from chunk idx on.
RECURSIVE stitch_from(_, _, _, _, _)
stitch_from(pcm_chunks, sample_rate, pauses_ms, idx, stitched) ==
    IF idx > Len(pcm_chunks) THEN stitched
    ELSE LET crossfade_frames == ms_frames(sample_rate, 15)
             pause_frames     == ms_frames(sample_rate, pauses_ms[idx - 1])
         IN  stitch_from(pcm_chunks, sample_rate, pauses_ms, idx + 1,
                 IF pause_frames > 0
                 THEN apply_fade_out(stitched, crossfade_frames)
                          \o silence(pause_frames)
                          \o apply_fade_in(pcm_chunks[idx], crossfade_frames)
                 ELSE crossfade(stitched, pcm_chunks[idx], crossfade_frames))

\* stitch_wavs(wavs, sample_rate=..., pauses_ms=..., crossfade_ms=15) on
\* decoded chunks: ValueError, or the samples of the WAV returned.
stitch_pcm(wavs, sample_rate, pauses_ms) ==
    IF wavs = <<>> \/ Len(pauses_ms) # max(0, Len(wavs) - 1)
    THEN [raised |-> TRUE, pcm |-> <<>>]
    ELSE [raised |-> FALSE, pcm |-> stitch_from(wavs, sample_rate, pauses_ms, 2, wavs[1])]

\* The chunks: one without frames, one of one sample, one of two.
StitchChunks == { <<>>, <<300>>, <<-200, 101>> }

\* The sample rates of the two engines (VITS 22050 Hz, XTTS 24000 Hz).
StitchRates == { 22050, 24000 }

\* The pauses: a negative one, none, and nine milliseconds.
StitchPauses == { -5, 0, 9 }

\* The sequences of n members of S.
Lists(S, n) == [1..n -> S]

\* The calls: up to MaxChunks chunks, with the number of pauses they need,
\* one more and one less.
StitchCalls ==
    UNION { [ wavs : Lists(StitchChunks, n), sample_rate : StitchRates,
              pauses_ms : UNION { Lists(StitchPauses, m) :
                                    m \in {x \in {n - 2, n - 1, n} : x >= 0} } ] :
            n \in 0..MaxChunks }

InitStitch ==
    /\ wav \in { [op |-> "stitch_wavs", wavs |-> call.wavs, sample_rate |-> call.sample_rate,
                  pauses_ms |-> call.pauses_ms, done |-> FALSE, raised |-> FALSE, pcm |-> <<>>] :
                 call \in StitchCalls }
    /\ seg = NoSeg
    /\ http = NoHttp
    /\ asr = NoAsr
    /\ keyIn = <<NoTuple, NoTuple>>
    /\ keyOut = NoKeys
    /\ EmptyCache

\* out = stitch_wavs(wavs, sample_rate=..., pauses_ms=...)
StitchWavs ==
    /\ wav.op = "stitch_wavs" /\ ~wav.done
    /\ \E out \in { stitch_pcm(wav.wavs, wav.sample_rate, wav.pauses_ms) } :
           wav' = [wav EXCEPT !.done = TRUE, !.raised = out.raised, !.pcm = out.pcm]
    /\ UNCHANGED <<seg, http, asr, keyIn, keyOut, db, fs, dirs, now, last, seen, tampered, pc, loc>>

NextStitch == StitchWavs

SpecStitch == InitStitch /\ [][NextStitch]_vars

---------------------------------------------------------------------------
(* Properties of stitch_wavs (SpecStitch)                                  *)

\* The sum of the members of a sequence of integers.
RECURSIVE Sum(_)
Sum(xs) == IF xs = <<>> THEN 0 ELSE xs[1] + Sum(Tail(xs))

\* int(sample_rate * pause_ms / 1000): the quotient cut towards zero.
PauseSamples(sample_rate, pause_ms) ==
    IF pause_ms >= 0 THEN (sample_rate * pause_ms) \div 1000
    ELSE 0 - ((sample_rate * (0 - pause_ms)) \div 1000)

\* The offset at which the stream ends after chunk n when every junction
\* up to it got its silence.
StreamEnd(call, n) ==
    Sum([i \in 1..n |-> Len(call.wavs[i])])
        + Sum([i \in 1..(n - 1) |-> PauseSamples(call.sample_rate, call.pauses_ms[i])])

\* C22: stitching N >= 1 chunks needs exactly N-1 pauses, any other count
\* and an empty chunk list being errors; at each junction with a non-zero
\* pause exactly int(sample_rate * pause_ms / 1000) zero-valued samples
\* follow the end of the stream so far and the next chunk follows them at
\* once, so that the output is as long as the chunks and the silence
\* together.
C22_StitchInsertsSilence ==
    (wav.op = "stitch_wavs" /\ wav.done) =>
        LET N == Len(wav.wavs)
        IN  /\ wav.raised <=> (N = 0 \/ Len(wav.pauses_ms) # N - 1)
            /\ (~wav.raised /\ \A j \in 1..(N - 1) : wav.pauses_ms[j] # 0) =>
                   /\ \A j \in 1..(N - 1) :
                          LET frames == PauseSamples(wav.sample_rate, wav.pauses_ms[j])
                          IN  /\ frames >= 0
                              /\ Len(wav.pcm) >= StreamEnd(wav, j + 1)
                              /\ \A i \in (StreamEnd(wav, j) + 1)..(StreamEnd(wav, j) + frames) :
                                     wav.pcm[i] = 0
                   /\ Len(wav.pcm) = StreamEnd(wav, N)
                   /\ N >= 2 =>
                          SubSeq(wav.pcm, Len(wav.pcm) - Len(wav.wavs[N]) + 1, Len(wav.pcm))
                              = apply_fade_in(wav.wavs[N], ms_frames(wav.sample_rate, 15))

---------------------------------------------------------------------------
(* SpecSpeed: adjust_speed (xtts_service/audio_utils.py)                   *)
(*                                                                         *)
(* A WAV is its declared frame rate and its number of frames; the input is *)
(* mono and 16 bit wide, so wav_to_pcm16_mono hands its frames on as they  *)
(* are.  The sample values, which _resample_linear interpolates, are left  *)
(* out.  A speed is a multiple of 1/2048, which a double holds exactly.    *)

\* Number of frames of the short inputs.
MaxFrames == 3

\* The speed 1.0 in units of 1/2048.
SpeedUnit == 2048

\* len(_resample_linear(samples, src_rate=..., dst_rate=...)) for positive rates.
resample_linear_len(nframes, src_rate, dst_rate) ==
    IF src_rate = dst_rate \/ nframes = 0 THEN nframes
    ELSE max(1, round_int(nframes, dst_rate, src_rate))

\* adjust_speed(wav_bytes, speed=...): ValueError, or the WAV returned.
\* int(sr / speed) is the quotient cut to an integer: sr / speed is either
\* an integer or further from one than a double's rounding reaches.
adjust_speed(w, speed) ==
    IF speed <= 0 THEN [raised |-> TRUE, framerate |-> 0, nframes |-> 0]
    ELSE LET clamped == max(SpeedUnit \div 2, min((3 * SpeedUnit) \div 2, speed))
         IN  IF (IF clamped > SpeedUnit THEN clamped - SpeedUnit ELSE SpeedUnit - clamped) * 1000
                    < SpeedUnit
             THEN [raised |-> FALSE, framerate |-> w.framerate, nframes |-> w.nframes]
             ELSE LET target_rate == max(8000, min((w.framerate * SpeedUnit) \div clamped, 96000))
                  IN  [ raised |-> FALSE, framerate |-> w.framerate,
                        nframes |-> resample_linear_len(w.nframes, w.framerate, target_rate) ]

\* The inputs: telephone, engine and studio rates; no frames, a few, many.
SpeedRates == { 8000, 22050, 96000 }
SpeedFrames == (0..MaxFrames) \cup { 2000 }

\* The speeds: -1, 0, 0.25, 0.5, 0.75, three next to 1, 1.25, 1.5 and 2.
Speeds == { -2048, 0, 512, 1024, 1536, 2047, 2049, 2051, 2560, 3072, 4096 }

InitSpeed ==
    /\ wav \in [ op : {"adjust_speed"}, framerate : SpeedRates, nframes : SpeedFrames,
                 speed : Speeds, done : {FALSE}, raised : {FALSE},
                 out : {[framerate |-> 0, nframes |-> 0]} ]
    /\ seg = NoSeg
    /\ http = NoHttp
    /\ asr = NoAsr
    /\ keyIn = <<NoTuple, NoTuple>>
    /\ keyOut = NoKeys
    /\ EmptyCache

\* out = adjust_speed(wav_bytes, speed=...)
AdjustSpeed ==
    /\ wav.op = "adjust_speed" /\ ~wav.done
    /\ \E res \in { adjust_speed([framerate |-> wav.framerate, nframes |-> wav.nframes], wav.speed) } :
           wav' = [wav EXCEPT !.done = TRUE, !.raised = res.raised,
                              !.out = [framerate |-> res.framerate, nframes |-> res.nframes]]
    /\ UNCHANGED <<seg, http, asr, keyIn, keyOut, db, fs, dirs, now, last, seen, tampered, pc, loc>>

NextSpeed == AdjustSpeed

SpecSpeed == InitSpeed /\ [][NextSpeed]_vars

---------------------------------------------------------------------------
(* Properties of adjust_speed (SpecSpeed)                                  *)

\* The speed clamped to [0.5, 1.5], in units of 1/2048.
ClampedSpeed(speed) == max(SpeedUnit \div 2, min((3 * SpeedUnit) \div 2, speed))

\* C23: adjust_speed keeps the declared sample rate and scales the number
\* of frames by 1/speed, the speed clamped to [0.5, 1.5]: for every input
\* WAV a speed above 1 gives strictly fewer frames than the input and a
\* speed below 1 strictly more.  Scaled means: within one frame of
\* nframes / speed.
C23_SpeedScalesFrames ==
    (wav.op = "adjust_speed" /\ wav.done /\ ~wav.raised) =>
        LET c == ClampedSpeed(wav.speed)
            d == wav.out.nframes * c - wav.nframes * SpeedUnit
        IN  /\ wav.out.framerate = wav.framerate
            /\ d <= c /\ 0 - d <= c
            /\ wav.speed > SpeedUnit => wav.out.nframes < wav.nframes
            /\ wav.speed < SpeedUnit => wav.out.nframes > wav.nframes

---------------------------------------------------------------------------
(* SpecRadio: apply_radio_profile (XTTS_voicelab/xtts_service/radio.py)    *)
(*                                                                         *)
(* The input is a mono 16-bit WAV: its frame rate and its samples.  The    *)
(* chain is followed as far as it decides whether the call returns: the    *)
(* high-pass filter appends int(y) to an array of 16-bit integers, which   *)
(* raises OverflowError when int(y) does not fit, and nothing catches it.  *)
(* Every later stage keeps the number of samples and either clamps what    *)
(* it appends to [-32768, 32767] or scales an appended sample by a factor  *)
(* in [0, 1], so that it returns; the sample values it leaves, which       *)
(* depend on random noise, are left out, and the answer is the frame rate  *)
(* and the number of frames of the WAV returned.  The filter state y is    *)
(* kept in units of 1/256 and alpha in units of 2^-24, cut towards zero:   *)
(* after n samples y is within n/64 of the double the code computes.       *)

\* Number of samples of the input.
MaxSamples == 3

\* presets[profile]["hp"] in Hz.
preset_hp(profile) ==
    IF profile = <<"c", "o", "c", "k", "p", "i", "t">> THEN 200
    ELSE IF profile = <<"t", "i", "n", "n", "y">> THEN 520
    ELSE IF profile = <<"c", "o", "n", "g", "e", "s", "t", "e", "d">> THEN 360
    ELSE 320

\* The first n binary digits of r / den, for 0 <= r < den, after acc.
RECURSIVE quotient_bits(_, _, _, _)
quotient_bits(r, den, n, acc) ==
    IF n = 0 THEN acc
    ELSE IF 2 * r >= den THEN quotient_bits(2 * r - den, den, n - 1, 2 * acc + 1)
    ELSE quotient_bits(2 * r, den, n - 1, 2 * acc)

\* hp_alpha = hp_rc / (hp_rc + dt) with hp_rc = 1 / (2 * 3.14159 * hp) and
\* dt = 1 / sr, that is sr / (sr + 6.28318 * hp), in units of 2^-24.
hp_alpha(hp, sr) == quotient_bits(5000 * sr, 5000 * sr + 314159 * (hp \div 10), 24, 0)

\* y * alpha for y >= 0 in units of 1/256 and alpha in units of 2^-24,
\* in units of 1/256, multiplied in halves of twelve bits.
times_alpha(y, alpha) ==
    LET yh == y \div 4096
        yl == y % 4096
        ah == alpha \div 4096
        al == alpha % 4096
    IN  yh * ah + ((yh * al + yl * ah) + ((yl * al) \div 4096)) \div 4096

\* _one_pole_highpass(samples, alpha) from sample i on: TRUE if some
\* int(y_prev) appended to the array is outside [-32768, 32767].
RECURSIVE one_pole_highpass_overflows(_, _, _, _, _)
one_pole_highpass_overflows(samples, alpha, i, y_prev, x_prev) ==
    IF i > Len(samples) THEN FALSE
    ELSE LET sum == y_prev + (samples[i] - x_prev) * 256
             y   == IF sum >= 0 THEN times_alpha(sum, alpha) ELSE 0 - times_alpha(0 - sum, alpha)
             out == IF y >= 0 THEN y \div 256 ELSE 0 - ((0 - y) \div 256)
         IN  \/ out > 32767
             \/ out < -32768
             \/ one_pole_highpass_overflows(samples, alpha, i + 1, y, samples[i])

\* apply_radio_profile(audio_wav, profile) on a mono 16-bit WAV:
\* OverflowError, or the frame rate and number of frames of the WAV returned.
apply_radio_profile_pcm(w, profile) ==
    IF no_radio(profile) \/ profile \notin RADIO_PROFILES
    THEN [raised |-> FALSE, framerate |-> w.framerate, nframes |-> Len(w.samples)]
    ELSE IF one_pole_highpass_overflows(w.samples, hp_alpha(preset_hp(profile), w.framerate), 1, 0, 0)
    THEN [raised |-> TRUE, framerate |-> 0, nframes |-> 0]
    ELSE [raised |-> FALSE, framerate |-> w.framerate, nframes |-> Len(w.samples)]

\* The samples: silence and the two ends of the 16-bit range.
RadioLevels == { -32768, 0, 32767 }

RadioRates == { 22050, 24000 }

InitRadio ==
    /\ wav \in UNION { [ op : {"apply_radio_profile"}, framerate : RadioRates,
                         samples : Lists(RadioLevels, n), profile : RADIO_PROFILES,
                         done : {FALSE}, raised : {FALSE},
                         out : {[framerate |-> 0, nframes |-> 0]} ] : n \in 0..MaxSamples }
    /\ seg = NoSeg
    /\ http = NoHttp
    /\ asr = NoAsr
    /\ keyIn = <<NoTuple, NoTuple>>
    /\ keyOut = NoKeys
    /\ EmptyCache

\* out = apply_radio_profile(audio_wav, profile)
ApplyRadioProfile ==
    /\ wav.op = "apply_radio_profile" /\ ~wav.done
    /\ \E res \in { apply_radio_profile_pcm([framerate |-> wav.framerate, samples |-> wav.samples],
                                            wav.profile) } :
           wav' = [wav EXCEPT !.done = TRUE, !.raised = res.raised,
                              !.out = [framerate |-> res.framerate, nframes |-> res.nframes]]
    /\ UNCHANGED <<seg, http, asr, keyIn, keyOut, db, fs, dirs, now, last, seen, tampered, pc, loc>>

NextRadio == ApplyRadioProfile

SpecRadio == InitRadio /\ [][NextRadio]_vars

---------------------------------------------------------------------------
(* Properties of apply_radio_profile (SpecRadio)                           *)

\* C24: for every known profile other than clean and every mono 16-bit
\* input, whatever its amplitudes, apply_radio_profile returns without
\* raising, with the input's number of samples and its sample rate; no
\* sample on the way or in the output leaves [-32768, 32767].
C24_RadioKeepsShape ==
    ( /\ wav.op = "apply_radio_profile" /\ wav.done
      /\ wav.profile \in RADIO_PROFILES /\ ~no_radio(wav.profile) ) =>
        /\ ~wav.raised
        /\ wav.out.framerate = wav.framerate
        /\ wav.out.nframes = Len(wav.samples)

====
